---- MODULE Spec2Model ----
(***************************************************************************)
(* State-machine model of the avax-rpc-balancer request plane: the node    *)
(* registry (config/nodeConfig.ts), the health checker                     *)
(* (services/healthChecker.ts), the circuit breaker                        *)
(* (services/circuitBreaker.ts) and the selector (services/loadBalancer.ts)*)
(* together with the proxy (services/rpcHandler.ts) and the response cache *)
(* (services/caching.ts).                                                  *)
(*                                                                         *)
(* Time is the value of Date.now(), counted in model ticks from 1.         *)
(***************************************************************************)
EXTENDS Integers, Sequences, FiniteSets, TLC

(***************************************************************************)
(* Bounds of the model.                                                    *)
(***************************************************************************)
\* Date.now() ranges over 1..MaxTime.
MaxTime == 3
\* The circuit breaker's resetTimeout, in ticks.
ResetTimeout == 2
\* Upper bound on the outcomes recorded in the circuit breaker (all nodes).
MaxRequests == 5
\* Upper bound on the probes the health checker records (all nodes).
MaxProbes == 4
\* Upper bound on outcomes and probes together, where both are recorded.
MaxEvents == 3

\* config.maxEntries of the cache.
MaxEntries == 2

\* The remaining life, in ticks, an entry needs for saveToDisk to write it.
SaveHorizon == 1

(***************************************************************************)
(* Configuration of the circuit breaker (CircuitBreakerConfig).            *)
(***************************************************************************)
CBFailureThreshold == 3
CBSuccessThreshold == 2

\* A timestamp field that holds null.  Date.now() is positive, and the code
\* tests `circuit.openedAt &&`, so 0 and null are the same to it.
Null == 0

(***************************************************************************)
(* Configuration of the health checker (defaultHealthCheckConfig).         *)
(***************************************************************************)
HCFailureThreshold == 3
HCSuccessThreshold == 2
\* recordSuccess keeps the last RingSize response times.
RingSize == 10

\* ProxyOptions.retries (DEFAULT_OPTIONS).
Retries == 2

\* The node ids the callers of the circuit breaker and the probes use.
CBIds == {"n1", "n2"}

\* The node whose health changes while requests are selected and proxied.
ProbedIds == {"n2"}

\* selectNode's arguments.
Networks == {"avalanche-mainnet", "avalanche-fuji"}
Strategies == {"round-robin", "random", "weighted", "health-based"}
\* requiredCapability undefined.
NoCapability == ""
Capabilities == {NoCapability, "archive"}
\* selectNode returned null; a request sent without a nodeId.
NoNode == "null"


\* The nodes addNode is called with: one id, registered healthy or unhealthy.
AddedIds == {"n4"}
AddableNodes ==
    {[id |-> id, network |-> "avalanche-mainnet", healthy |-> h, weight |-> 1,
      priority |-> 3, capabilities |-> {"eth_call"}, lastCheck |-> Null] :
         id \in AddedIds, h \in BOOLEAN}

\* The response times (Date.now() - startTime) a successful probe can measure.
ResponseTimes == {1, 4}

\* The startup configuration (the `nodes` array), in order.
nodes ==
    << [id |-> "n1", network |-> "avalanche-mainnet", healthy |-> TRUE, weight |-> 2,
        priority |-> 1, capabilities |-> {"eth_call"}, lastCheck |-> Null],
       [id |-> "n2", network |-> "avalanche-mainnet", healthy |-> TRUE, weight |-> 1,
        priority |-> 2, capabilities |-> {"eth_call", "archive"}, lastCheck |-> Null],
       [id |-> "n3", network |-> "avalanche-fuji", healthy |-> TRUE, weight |-> 1,
        priority |-> 1, capabilities |-> {"eth_call"}, lastCheck |-> Null] >>

VARIABLES
    now,              \* Date.now()
    nodeHealthState,  \* nodeConfig.nodeHealthState : Map<string, NodeInfo>, in insertion order
    metrics,          \* HealthChecker.metrics : Map<string, NodeHealthMetrics>
    circuits,         \* CircuitBreaker.circuits : Map<string, CircuitStats>
    currentIndex,     \* loadBalancer.currentIndex
    cache,            \* RpcCache.cache : Map<string, CacheEntry>, in insertion order
    disk,             \* the entries of the file at persistentCachePath (none while it does not exist)
    inFlight,         \* the calls of checkNodeHealth that await their fetch
    ret               \* the last call made and the value it returned

vars == <<now, nodeHealthState, metrics, circuits, currentIndex, cache, disk, inFlight, ret>>

\* No call has returned a value since the last state change.
NoRet == [op |-> "none", node |-> "", value |-> FALSE]

----------------------------------------------------------------------------
(***************************************************************************)
(* Circuit breaker.                                                        *)
(***************************************************************************)

\* The record initCircuit stores for a node seen for the first time.
NewCircuit ==
    [failures |-> 0, successes |-> 0, lastFailure |-> Null, lastSuccess |-> Null,
     openedAt |-> Null, state |-> "CLOSED", totalFailures |-> 0, totalSuccesses |-> 0]

\* Map.set(key, value)
MapSet(m, k, v) == [x \in DOMAIN m \cup {k} |-> IF x = k THEN v ELSE m[x]]

\* ensureCircuitExists / initCircuit: the map with a circuit for nodeId.
ensureCircuitExists(cs, nodeId) ==
    IF nodeId \in DOMAIN cs THEN cs ELSE MapSet(cs, nodeId, NewCircuit)

\* openCircuit, applied to the circuit record.
openCircuit(c, t) == [c EXCEPT !.state = "OPEN", !.openedAt = t]

\* transitionToHalfOpen that keeps the consecutive successes.
transitionToHalfOpen_KeepsSuccesses(c) == [c EXCEPT !.state = "HALF_OPEN"]

\* transitionToHalfOpen, applied to the circuit record.
transitionToHalfOpen(c) == [c EXCEPT !.state = "HALF_OPEN", !.successes = 0]

\* closeCircuit that leaves openedAt as it is.
closeCircuit_KeepsOpenedAt(c) == [c EXCEPT !.state = "CLOSED", !.failures = 0]

\* closeCircuit, applied to the circuit record.
closeCircuit(c) == [c EXCEPT !.state = "CLOSED", !.failures = 0, !.openedAt = Null]

\* The timeout test passing one tick early.
timeoutElapsed_Early(c, t) == c.openedAt # Null /\ t - c.openedAt >= ResetTimeout - 1

\* `circuit.openedAt && now - circuit.openedAt >= resetTimeout`
timeoutElapsed(c, t) == c.openedAt # Null /\ t - c.openedAt >= ResetTimeout

\* The circuit after isAllowed has looked at it at time t.
isAllowedCircuit(c, t) ==
    IF c.state = "OPEN" /\ timeoutElapsed(c, t) THEN transitionToHalfOpen(c) ELSE c

\* The value isAllowed returns for the circuit at time t.
isAllowedResult(c, t) ==
    CASE c.state = "CLOSED" -> TRUE
      [] c.state = "OPEN" -> timeoutElapsed(c, t)
      [] OTHER -> c.successes < CBSuccessThreshold

\* recordSuccess comparing with > where the code has >=.
recordSuccessCircuit_ClosesLate(c, t) ==
    LET c1 == [c EXCEPT !.successes = c.successes + 1, !.failures = 0,
                        !.lastSuccess = t, !.totalSuccesses = c.totalSuccesses + 1]
    IN  IF c1.state = "HALF_OPEN" /\ c1.successes > CBSuccessThreshold
        THEN closeCircuit(c1) ELSE c1

\* The circuit after recordSuccess at time t.
recordSuccessCircuit(c, t) ==
    LET c1 == [c EXCEPT !.successes = c.successes + 1, !.failures = 0,
                        !.lastSuccess = t, !.totalSuccesses = c.totalSuccesses + 1]
    IN  IF c1.state = "HALF_OPEN" /\ c1.successes >= CBSuccessThreshold
        THEN closeCircuit(c1) ELSE c1

\* recordFailure that opens the circuit again whenever it is not CLOSED.
recordFailureCircuit_RestartsTimeout(c, t) ==
    LET c1 == [c EXCEPT !.failures = c.failures + 1, !.successes = 0,
                        !.lastFailure = t, !.totalFailures = c.totalFailures + 1]
    IN  IF c1.state = "CLOSED" /\ c1.failures >= CBFailureThreshold
        THEN openCircuit(c1, t)
        ELSE IF c1.state # "CLOSED" THEN openCircuit(c1, t) ELSE c1

\* recordFailure comparing with > where the code has >=.
recordFailureCircuit_OpensLate(c, t) ==
    LET c1 == [c EXCEPT !.failures = c.failures + 1, !.successes = 0,
                        !.lastFailure = t, !.totalFailures = c.totalFailures + 1]
    IN  IF c1.state = "CLOSED" /\ c1.failures > CBFailureThreshold
        THEN openCircuit(c1, t)
        ELSE IF c1.state = "HALF_OPEN" THEN openCircuit(c1, t) ELSE c1

\* The circuit after recordFailure at time t.
recordFailureCircuit(c, t) ==
    LET c1 == [c EXCEPT !.failures = c.failures + 1, !.successes = 0,
                        !.lastFailure = t, !.totalFailures = c.totalFailures + 1]
    IN  IF c1.state = "CLOSED" /\ c1.failures >= CBFailureThreshold
        THEN openCircuit(c1, t)
        ELSE IF c1.state = "HALF_OPEN" THEN openCircuit(c1, t) ELSE c1

\* resetCircuit that forgets when the last failure was.
resetCircuitRecord_ForgetsLastFailure(c) ==
    [failures |-> 0, successes |-> 0, lastFailure |-> Null,
     lastSuccess |-> c.lastSuccess, openedAt |-> Null, state |-> "CLOSED",
     totalFailures |-> c.totalFailures, totalSuccesses |-> c.totalSuccesses]

\* resetCircuit copying openedAt as it copies lastFailure and lastSuccess.
resetCircuitRecord_KeepsOpenedAt(c) ==
    [failures |-> 0, successes |-> 0, lastFailure |-> c.lastFailure,
     lastSuccess |-> c.lastSuccess, openedAt |-> c.openedAt, state |-> "CLOSED",
     totalFailures |-> c.totalFailures, totalSuccesses |-> c.totalSuccesses]

\* The circuit resetCircuit stores.
resetCircuitRecord(c) ==
    [failures |-> 0, successes |-> 0, lastFailure |-> c.lastFailure,
     lastSuccess |-> c.lastSuccess, openedAt |-> Null, state |-> "CLOSED",
     totalFailures |-> c.totalFailures, totalSuccesses |-> c.totalSuccesses]

\* getCircuitStats(nodeId): the stats a caller reads, a fresh circuit for a
\* node the breaker has not seen.
getCircuitStats(cs, nodeId) == ensureCircuitExists(cs, nodeId)[nodeId]

RECURSIVE SumOver(_, _)
SumOver(f, S) ==
    IF S = {} THEN 0
    ELSE LET x == CHOOSE y \in S : TRUE IN f[x] + SumOver(f, S \ {x})

\* The outcomes the circuit breaker has recorded so far, over all nodes.
RecordedOutcomes ==
    SumOver([n \in DOMAIN circuits |->
                circuits[n].totalFailures + circuits[n].totalSuccesses],
            DOMAIN circuits)

\* CircuitBreaker.isAllowed(nodeId)
IsAllowed(nodeId) ==
    LET cs == ensureCircuitExists(circuits, nodeId) IN
    /\ circuits' = [cs EXCEPT ![nodeId] = isAllowedCircuit(cs[nodeId], now)]
    /\ ret' = [op |-> "isAllowed", node |-> nodeId,
               value |-> isAllowedResult(cs[nodeId], now)]
    /\ UNCHANGED <<now, nodeHealthState, metrics, currentIndex, cache, disk, inFlight>>

\* CircuitBreaker.recordSuccess(nodeId)
RecordSuccess(nodeId) ==
    LET cs == ensureCircuitExists(circuits, nodeId) IN
    /\ circuits' = [cs EXCEPT ![nodeId] = recordSuccessCircuit(cs[nodeId], now)]
    /\ ret' = NoRet
    /\ UNCHANGED <<now, nodeHealthState, metrics, currentIndex, cache, disk, inFlight>>

\* CircuitBreaker.recordFailure(nodeId)
RecordFailure(nodeId) ==
    LET cs == ensureCircuitExists(circuits, nodeId) IN
    /\ circuits' = [cs EXCEPT ![nodeId] = recordFailureCircuit(cs[nodeId], now)]
    /\ ret' = NoRet
    /\ UNCHANGED <<now, nodeHealthState, metrics, currentIndex, cache, disk, inFlight>>

\* CircuitBreaker.resetCircuit(nodeId)
ResetCircuit(nodeId) ==
    LET cs == ensureCircuitExists(circuits, nodeId) IN
    /\ circuits' = [cs EXCEPT ![nodeId] = resetCircuitRecord(cs[nodeId])]
    /\ ret' = NoRet
    /\ UNCHANGED <<now, nodeHealthState, metrics, currentIndex, cache, disk, inFlight>>

\* A monitor callback that looks at CLOSED circuits instead of OPEN ones.
MonitorTick_ChecksClosed ==
    /\ circuits' = [n \in DOMAIN circuits |->
                       IF circuits[n].state = "CLOSED" /\ timeoutElapsed(circuits[n], now)
                       THEN transitionToHalfOpen(circuits[n]) ELSE circuits[n]]
    /\ ret' = NoRet
    /\ UNCHANGED <<now, nodeHealthState, metrics, currentIndex, cache, disk, inFlight>>

\* One run of the setInterval callback of startMonitoring.
MonitorTick ==
    /\ circuits' = [n \in DOMAIN circuits |->
                       IF circuits[n].state = "OPEN" /\ timeoutElapsed(circuits[n], now)
                       THEN transitionToHalfOpen(circuits[n]) ELSE circuits[n]]
    /\ ret' = NoRet
    /\ UNCHANGED <<now, nodeHealthState, metrics, currentIndex, cache, disk, inFlight>>

\* Date.now() advances.
Tick ==
    /\ now < MaxTime
    /\ now' = now + 1
    /\ ret' = NoRet
    /\ UNCHANGED <<nodeHealthState, metrics, circuits, currentIndex, cache, disk, inFlight>>

----------------------------------------------------------------------------
(***************************************************************************)
(* Node registry (config/nodeConfig.ts).                                   *)
(***************************************************************************)

\* The positions of a sequence.
Indices(seq) == 1..Len(seq)

\* nodeHealthState.has(id)
hasNode(reg, id) == \E i \in Indices(reg) : reg[i].id = id

\* getNodeById(id), for an id the registry holds.
getNodeById(reg, id) == reg[CHOOSE i \in Indices(reg) : reg[i].id = id]

\* The position of a node in the registry (0 when getNodeById is undefined).
nodeIndex(reg, id) ==
    IF hasNode(reg, id) THEN CHOOSE i \in Indices(reg) : reg[i].id = id ELSE 0

\* getHealthyNodesByNetwork(network)
getHealthyNodesByNetwork(reg, network) ==
    LET keep(node) == node.network = network /\ node.healthy IN SelectSeq(reg, keep)

\* updateNodeHealth(nodeId, isHealthy) at time t: the registry afterwards.
updateNodeHealth(reg, nodeId, isHealthy, t) ==
    IF hasNode(reg, nodeId)
    THEN [reg EXCEPT ![nodeIndex(reg, nodeId)] =
             [@ EXCEPT !.healthy = isHealthy, !.lastCheck = t]]
    ELSE reg

\* addNode(node): refused for an id the registry holds.
AddNode(node) ==
    /\ IF hasNode(nodeHealthState, node.id)
       THEN /\ ret' = [op |-> "addNode", node |-> node.id, value |-> FALSE]
            /\ UNCHANGED nodeHealthState
       ELSE /\ nodeHealthState' =
                   Append(nodeHealthState, [node EXCEPT !.lastCheck = now])
            /\ ret' = [op |-> "addNode", node |-> node.id, value |-> TRUE]
    /\ UNCHANGED <<now, metrics, circuits, currentIndex, cache, disk, inFlight>>

\* removeNode(nodeId): refused for an id the registry does not hold.
RemoveNode(nodeId) ==
    /\ IF ~hasNode(nodeHealthState, nodeId)
       THEN /\ ret' = [op |-> "removeNode", node |-> nodeId, value |-> FALSE]
            /\ UNCHANGED nodeHealthState
       ELSE /\ nodeHealthState' = SelectSeq(nodeHealthState, LAMBDA node : node.id # nodeId)
            /\ ret' = [op |-> "removeNode", node |-> nodeId, value |-> TRUE]
    /\ UNCHANGED <<now, metrics, circuits, currentIndex, cache, disk, inFlight>>

\* resetNodeConfig(): the registry holds copies of the default nodes again.
ResetNodeConfig ==
    /\ nodeHealthState' = nodes
    /\ ret' = [op |-> "resetNodeConfig", node |-> "", value |-> TRUE]
    /\ UNCHANGED <<now, metrics, circuits, currentIndex, cache, disk, inFlight>>

----------------------------------------------------------------------------
(***************************************************************************)
(* Health checker (services/healthChecker.ts).                             *)
(*                                                                         *)
(* Averages and scores are computed exactly, as fractions <<num, den>>     *)
(* with den > 0; the code computes them in floating point.                 *)
(***************************************************************************)

RECURSIVE SeqSum(_)
SeqSum(seq) == IF seq = << >> THEN 0 ELSE Head(seq) + SeqSum(Tail(seq))

\* Fractions.
Frac(n, d) == <<n, d>>
FracAdd(a, b) == <<a[1] * b[2] + b[1] * a[2], a[2] * b[2]>>
FracSub(a, b) == <<a[1] * b[2] - b[1] * a[2], a[2] * b[2]>>
FracMul(a, b) == <<a[1] * b[1], a[2] * b[2]>>
FracDiv(a, b) == <<a[1] * b[2], a[2] * b[1]>>
FracLeq(a, b) == a[1] * b[2] <= b[1] * a[2]
FracPos(a) == a[1] > 0

\* Math.floor of a fraction.
FracFloor(a) == a[1] \div a[2]

\* Math.round of a fraction: Math.floor(x + 0.5).
MathRound(a) == FracFloor(FracAdd(a, Frac(1, 2)))

\* The metrics initializeMetrics stores for a configured node.
InitialMetrics(node, t) ==
    [responseTime |-> << >>, lastResponseTime |-> 0, successCount |-> 0,
     failureCount |-> 0, consecutiveFailures |-> 0, consecutiveSuccesses |-> 0,
     lastChecked |-> 0, lastStatusChange |-> t,
     score |-> IF node.healthy THEN 100 ELSE 0]

\* The metrics getOrCreateMetrics stores for a node it has not seen.
DefaultMetrics(t) ==
    [responseTime |-> << >>, lastResponseTime |-> 0, successCount |-> 0,
     failureCount |-> 0, consecutiveFailures |-> 0, consecutiveSuccesses |-> 0,
     lastChecked |-> 0, lastStatusChange |-> t, score |-> 50]

\* getOrCreateMetrics: the map with metrics for nodeId.
getOrCreateMetrics(ms, nodeId, t) ==
    IF nodeId \in DOMAIN ms THEN ms ELSE MapSet(ms, nodeId, DefaultMetrics(t))

\* calculateAverage(values); the field avgResponseTime always holds
\* calculateAverage(responseTime).
calculateAverage(values) ==
    IF values = << >> THEN Frac(0, 1) ELSE Frac(SeqSum(values), Len(values))

avgResponseTime(m) == calculateAverage(m.responseTime)

\* getAverageResponseTimeAcrossNodes
RECURSIVE FracSumOver(_, _)
FracSumOver(ms, S) ==
    IF S = {} THEN Frac(0, 1)
    ELSE LET x == CHOOSE y \in S : TRUE
         IN  FracAdd(avgResponseTime(ms[x]), FracSumOver(ms, S \ {x}))

getAverageResponseTimeAcrossNodes(ms) ==
    LET counted == {n \in DOMAIN ms : FracPos(avgResponseTime(ms[n]))}
    IN  IF counted = {} THEN Frac(0, 1)
        ELSE FracDiv(FracSumOver(ms, counted), Frac(Cardinality(counted), 1))

\* The response-time half of the score.
responseTimeScore(ms, nodeId) ==
    LET fleet == getAverageResponseTimeAcrossNodes(ms)
        own == avgResponseTime(ms[nodeId])
        ratio == FracDiv(own, fleet)
    IN  IF FracPos(fleet) /\ FracPos(own)
        THEN IF FracLeq(ratio, Frac(1, 2)) THEN Frac(50, 1)
             ELSE IF FracLeq(Frac(2, 1), ratio) THEN Frac(10, 1)
             ELSE FracSub(Frac(50, 1),
                          FracMul(FracSub(ratio, Frac(1, 2)), Frac(80, 3)))
        ELSE Frac(50, 1)

\* The success-rate half of the score.
successScore(m) ==
    LET totalChecks == m.successCount + m.failureCount
    IN  IF totalChecks > 0 THEN Frac(50 * m.successCount, totalChecks) ELSE Frac(50, 1)

\* Math.max(0, Math.min(100, x))
Clamp(x) ==
    IF FracLeq(x, Frac(0, 1)) THEN Frac(0, 1)
    ELSE IF FracLeq(Frac(100, 1), x) THEN Frac(100, 1) ELSE x

Min(a, b) == IF a <= b THEN a ELSE b

\* calculateNodeScore lowering the score of an unhealthy node by 10 at each
\* call, where the code caps it at 10.
calculateNodeScore_Decays(reg, ms, nodeId, t) ==
    IF ~hasNode(reg, nodeId) THEN ms
    ELSE LET ms1 == getOrCreateMetrics(ms, nodeId, t)
             m == ms1[nodeId]
         IN  IF ~reg[nodeIndex(reg, nodeId)].healthy
             THEN [ms1 EXCEPT ![nodeId].score = m.score - 10]
             ELSE [ms1 EXCEPT ![nodeId].score =
                      MathRound(Clamp(FracAdd(successScore(m),
                                              responseTimeScore(ms1, nodeId))))]

\* calculateNodeScore(nodeId): the metrics map afterwards.
calculateNodeScore(reg, ms, nodeId, t) ==
    IF ~hasNode(reg, nodeId) THEN ms
    ELSE LET ms1 == getOrCreateMetrics(ms, nodeId, t)
             m == ms1[nodeId]
         IN  IF ~reg[nodeIndex(reg, nodeId)].healthy
             THEN [ms1 EXCEPT ![nodeId].score = Min(10, m.score)]
             ELSE [ms1 EXCEPT ![nodeId].score =
                      MathRound(Clamp(FracAdd(successScore(m),
                                              responseTimeScore(ms1, nodeId))))]

\* push, then shift while more than RingSize values are kept.
pushResponseTime(ring, responseTime) ==
    LET pushed == Append(ring, responseTime)
    IN  IF Len(pushed) > RingSize THEN Tail(pushed) ELSE pushed

\* The metrics of the node after the updates of HealthChecker.recordSuccess.
recordSuccessMetrics(m, responseTime) ==
    [m EXCEPT !.lastResponseTime = responseTime,
              !.responseTime = pushResponseTime(m.responseTime, responseTime),
              !.successCount = m.successCount + 1,
              !.consecutiveSuccesses = m.consecutiveSuccesses + 1,
              !.consecutiveFailures = 0]

\* recordFailure that forgets to clear consecutiveSuccesses.
recordFailureMetrics_KeepsSuccesses(m) ==
    [m EXCEPT !.failureCount = m.failureCount + 1,
              !.consecutiveFailures = m.consecutiveFailures + 1]

\* The metrics of the node after the updates of HealthChecker.recordFailure.
recordFailureMetrics(m) ==
    [m EXCEPT !.failureCount = m.failureCount + 1,
              !.consecutiveFailures = m.consecutiveFailures + 1,
              !.consecutiveSuccesses = 0]

\* The recovery test comparing with > where the code has >=.
marksHealthy_Late(node, m) ==
    ~node.healthy /\ m.consecutiveSuccesses > HCSuccessThreshold

\* HealthChecker.recordSuccess marks the node healthy.
marksHealthy(node, m) ==
    ~node.healthy /\ m.consecutiveSuccesses >= HCSuccessThreshold

\* The failure test comparing with > where the code has >=.
marksUnhealthy_Late(node, m) ==
    node.healthy /\ m.consecutiveFailures > HCFailureThreshold

\* HealthChecker.recordFailure marks the node unhealthy.
marksUnhealthy(node, m) ==
    node.healthy /\ m.consecutiveFailures >= HCFailureThreshold

\* The probes recorded so far, over all nodes.
RecordedProbes ==
    SumOver([n \in DOMAIN metrics |->
                metrics[n].successCount + metrics[n].failureCount],
            DOMAIN metrics)

\* checkNodeHealth(node) up to its await: the metrics of the node exist from
\* then on, whatever becomes of the fetch.
ProbeStart(nodeId) ==
    /\ hasNode(nodeHealthState, nodeId)
    /\ metrics' = getOrCreateMetrics(metrics, nodeId, now)
    /\ ret' = NoRet
    /\ UNCHANGED <<now, nodeHealthState, circuits, currentIndex, cache, disk, inFlight>>

\* getOrCreateMetrics for each node of a sequence, in order.
RECURSIVE createMetricsForAll(_, _, _)
createMetricsForAll(ms, reg, t) ==
    IF reg = << >> THEN ms
    ELSE createMetricsForAll(getOrCreateMetrics(ms, Head(reg).id, t), Tail(reg), t)

\* getHealthReport(): creates the metrics of the nodes that have none.
GetHealthReport ==
    /\ metrics' = createMetricsForAll(metrics, nodeHealthState, now)
    /\ ret' = [op |-> "getHealthReport", node |-> "", value |-> TRUE]
    /\ UNCHANGED <<now, nodeHealthState, circuits, currentIndex, cache, disk, inFlight>>

\* checkNodeHealth(node) whose fetch answered ok after responseTime:
\* recordSuccess(node.id, responseTime), then lastChecked.
ProbeSuccess(nodeId, responseTime) ==
    /\ hasNode(nodeHealthState, nodeId)
    /\ LET node == nodeHealthState[nodeIndex(nodeHealthState, nodeId)]
           ms1 == getOrCreateMetrics(metrics, nodeId, now)
           m2 == recordSuccessMetrics(ms1[nodeId], responseTime)
           up == marksHealthy(node, m2)
           reg2 == IF up THEN updateNodeHealth(nodeHealthState, nodeId, TRUE, now)
                   ELSE nodeHealthState
           m3 == IF up THEN [m2 EXCEPT !.lastStatusChange = now] ELSE m2
           ms4 == calculateNodeScore(reg2, [ms1 EXCEPT ![nodeId] = m3], nodeId, now)
       IN  /\ nodeHealthState' = reg2
           /\ metrics' = [ms4 EXCEPT ![nodeId].lastChecked = now]
    /\ ret' = NoRet
    /\ UNCHANGED <<now, circuits, currentIndex, cache, disk, inFlight>>

\* checkNodeHealth(node) whose fetch failed or answered not ok:
\* recordFailure(node.id, responseTime), then lastChecked.
ProbeFailure(nodeId) ==
    /\ hasNode(nodeHealthState, nodeId)
    /\ LET node == nodeHealthState[nodeIndex(nodeHealthState, nodeId)]
           ms1 == getOrCreateMetrics(metrics, nodeId, now)
           m2 == recordFailureMetrics(ms1[nodeId])
           down == marksUnhealthy(node, m2)
           reg2 == IF down THEN updateNodeHealth(nodeHealthState, nodeId, FALSE, now)
                   ELSE nodeHealthState
           m3 == IF down THEN [m2 EXCEPT !.lastStatusChange = now] ELSE m2
           ms4 == calculateNodeScore(reg2, [ms1 EXCEPT ![nodeId] = m3], nodeId, now)
       IN  /\ nodeHealthState' = reg2
           /\ metrics' = [ms4 EXCEPT ![nodeId].lastChecked = now]
    /\ ret' = NoRet
    /\ UNCHANGED <<now, circuits, currentIndex, cache, disk, inFlight>>

\* HealthChecker.forceUpdateHealth(nodeId, isHealthy)
ForceUpdateHealth(nodeId, isHealthy) ==
    /\ IF ~hasNode(nodeHealthState, nodeId)
       THEN /\ ret' = [op |-> "forceUpdateHealth", node |-> nodeId, value |-> FALSE]
            /\ UNCHANGED <<nodeHealthState, metrics>>
       ELSE LET reg2 == updateNodeHealth(nodeHealthState, nodeId, isHealthy, now)
                ms1 == getOrCreateMetrics(metrics, nodeId, now)
                m2 == IF isHealthy
                      THEN [ms1[nodeId] EXCEPT !.lastStatusChange = now,
                               !.consecutiveFailures = 0,
                               !.consecutiveSuccesses = HCSuccessThreshold]
                      ELSE [ms1[nodeId] EXCEPT !.lastStatusChange = now,
                               !.consecutiveSuccesses = 0,
                               !.consecutiveFailures = HCFailureThreshold]
            IN  /\ nodeHealthState' = reg2
                /\ metrics' = calculateNodeScore(reg2, [ms1 EXCEPT ![nodeId] = m2],
                                                 nodeId, now)
                /\ ret' = [op |-> "forceUpdateHealth", node |-> nodeId, value |-> TRUE]
    /\ UNCHANGED <<now, circuits, currentIndex, cache, disk, inFlight>>

\* HealthChecker.recordSuccess(nodeId, responseTime): the registry and the
\* metrics afterwards.
recordSuccess(reg, ms, nodeId, responseTime, t) ==
    IF ~hasNode(reg, nodeId)
    THEN [nodeHealthState |-> reg, metrics |-> ms]
    ELSE LET node == reg[nodeIndex(reg, nodeId)]
             ms1 == getOrCreateMetrics(ms, nodeId, t)
             m2 == recordSuccessMetrics(ms1[nodeId], responseTime)
             up == marksHealthy(node, m2)
             reg2 == IF up THEN updateNodeHealth(reg, nodeId, TRUE, t) ELSE reg
             m3 == IF up THEN [m2 EXCEPT !.lastStatusChange = t] ELSE m2
         IN  [nodeHealthState |-> reg2,
              metrics |-> calculateNodeScore(reg2, [ms1 EXCEPT ![nodeId] = m3], nodeId, t)]

\* A recordFailure that does not look the node up before it counts.
recordFailure_CountsAnyway(reg, ms, nodeId, t) ==
    LET ms1 == getOrCreateMetrics(ms, nodeId, t)
        m2 == recordFailureMetrics(ms1[nodeId])
        down == hasNode(reg, nodeId) /\ marksUnhealthy(reg[nodeIndex(reg, nodeId)], m2)
        reg2 == IF down THEN updateNodeHealth(reg, nodeId, FALSE, t) ELSE reg
        m3 == IF down THEN [m2 EXCEPT !.lastStatusChange = t] ELSE m2
    IN  [nodeHealthState |-> reg2,
         metrics |-> calculateNodeScore(reg2, [ms1 EXCEPT ![nodeId] = m3], nodeId, t)]

\* HealthChecker.recordFailure(nodeId, responseTime): the registry and the
\* metrics afterwards.
recordFailure(reg, ms, nodeId, t) ==
    IF ~hasNode(reg, nodeId)
    THEN [nodeHealthState |-> reg, metrics |-> ms]
    ELSE LET node == reg[nodeIndex(reg, nodeId)]
             ms1 == getOrCreateMetrics(ms, nodeId, t)
             m2 == recordFailureMetrics(ms1[nodeId])
             down == marksUnhealthy(node, m2)
             reg2 == IF down THEN updateNodeHealth(reg, nodeId, FALSE, t) ELSE reg
             m3 == IF down THEN [m2 EXCEPT !.lastStatusChange = t] ELSE m2
         IN  [nodeHealthState |-> reg2,
              metrics |-> calculateNodeScore(reg2, [ms1 EXCEPT ![nodeId] = m3], nodeId, t)]

\* The timers start() sets up: "check" runs checkAllNodes, "recovery" runs
\* attemptRecovery.
Timers == {"check", "recovery"}

\* The calls of checkNodeHealth a timer callback makes for a sequence of
\* nodes, each up to its await.
probesStarted(reg, timer) == {[node |-> reg[i].id, timer |-> timer] : i \in Indices(reg)}

\* checkAllNodes(), from start() or from the check timer: checkNodeHealth for
\* every node of the registry, up to the await of each.  The fetch of a probe
\* ends within timeout (2000 ms), before the timer fires again (interval,
\* 10000 ms).
CheckAllNodes ==
    /\ ~ \E probe \in inFlight : probe.timer = "check"
    /\ metrics' = createMetricsForAll(metrics, nodeHealthState, now)
    /\ inFlight' = inFlight \cup probesStarted(nodeHealthState, "check")
    /\ ret' = NoRet
    /\ UNCHANGED <<now, nodeHealthState, circuits, currentIndex, cache, disk>>

\* attemptRecovery(), from the recovery timer: checkNodeHealth for every
\* node marked unhealthy, up to the await of each.  The fetch ends before
\* the timer fires again (recoveryInterval, 60000 ms).
AttemptRecovery ==
    LET unhealthy == SelectSeq(nodeHealthState, LAMBDA node : ~node.healthy)
    IN  /\ ~ \E probe \in inFlight : probe.timer = "recovery"
        /\ metrics' = createMetricsForAll(metrics, unhealthy, now)
        /\ inFlight' = inFlight \cup probesStarted(unhealthy, "recovery")
        /\ ret' = NoRet
        /\ UNCHANGED <<now, nodeHealthState, circuits, currentIndex, cache, disk>>

\* checkNodeHealth(node) from its await on: the fetch answered ok after
\* responseTime or it failed, recordSuccess or recordFailure runs, and the
\* finally block writes lastChecked into the metrics read before the await.
CheckNodeHealthCompletes(probe, ok, responseTime) ==
    /\ probe \in inFlight
    /\ inFlight' = inFlight \ {probe}
    /\ LET after == IF ok
                    THEN recordSuccess(nodeHealthState, metrics, probe.node,
                                       responseTime, now)
                    ELSE recordFailure(nodeHealthState, metrics, probe.node, now)
       IN  /\ nodeHealthState' = after.nodeHealthState
           /\ metrics' = [after.metrics EXCEPT ![probe.node].lastChecked = now]
    /\ ret' = [op |-> "checkNodeHealth", node |-> probe.node, value |-> ok]
    /\ UNCHANGED <<now, circuits, currentIndex, cache, disk>>

----------------------------------------------------------------------------
(***************************************************************************)
(* Selector (services/loadBalancer.ts) and the outcome accounting of the   *)
(* proxy (services/rpcHandler.ts).                                         *)
(***************************************************************************)

\* `requiredCapability ? networkNodes.filter(...) : networkNodes`
availableNodes(reg, network, requiredCapability) ==
    LET networkNodes == getHealthyNodesByNetwork(reg, network)
        has(node) == requiredCapability \in node.capabilities
    IN  IF requiredCapability # NoCapability
        THEN SelectSeq(networkNodes, has) ELSE networkNodes

\* HealthChecker.getNodeScore(nodeId)
getNodeScore(ms, nodeId) == IF nodeId \in DOMAIN ms THEN ms[nodeId].score ELSE 0

\* `node.weight || 1`
effectiveWeight(node) == IF node.weight = 0 THEN 1 ELSE node.weight

RECURSIVE totalWeight(_)
totalWeight(avail) ==
    IF avail = << >> THEN 0 ELSE effectiveWeight(Head(avail)) + totalWeight(Tail(avail))

\* The weighted loop: the first position at which `random` has dropped to 0 or
\* below.  The sample is counted in halves (random = halves / 2).
weightedPick(avail, halves) ==
    CHOOSE i \in Indices(avail) :
        /\ halves <= 2 * totalWeight(SubSeq(avail, 1, i))
        /\ \A j \in 1..(i - 1) : halves > 2 * totalWeight(SubSeq(avail, 1, j))

\* The head of the candidates sorted by score, highest first (the sort is stable).
healthBasedPick(avail, ms) ==
    CHOOSE i \in Indices(avail) :
        /\ \A j \in Indices(avail) :
               getNodeScore(ms, avail[j].id) <= getNodeScore(ms, avail[i].id)
        /\ \A j \in 1..(i - 1) :
               getNodeScore(ms, avail[j].id) < getNodeScore(ms, avail[i].id)

\* What selectNode returned.
Selected(nodeId) == [op |-> "selectNode", node |-> nodeId, value |-> nodeId # NoNode]

\* A selector whose round-robin advances the index by two.
SelectNode_SkipsOne(network, strategy, requiredCapability) ==
    LET avail == availableNodes(nodeHealthState, network, requiredCapability) IN
    /\ IF avail = << >>
       THEN /\ ret' = Selected(NoNode)
            /\ UNCHANGED currentIndex
       ELSE CASE strategy = "random" ->
                 /\ \E i \in Indices(avail) :
                        ret' = Selected(avail[i].id)
                 /\ UNCHANGED currentIndex
              [] strategy = "weighted" ->
                 /\ \E halves \in 0..(2 * totalWeight(avail) - 1) :
                        ret' = Selected(avail[weightedPick(avail, halves)].id)
                 /\ UNCHANGED currentIndex
              [] strategy = "health-based" ->
                 /\ ret' = Selected(avail[healthBasedPick(avail, metrics)].id)
                 /\ UNCHANGED currentIndex
              [] OTHER ->
                 /\ currentIndex' = (currentIndex + 2) % Len(avail)
                 /\ ret' = Selected(avail[currentIndex' + 1].id)
    /\ UNCHANGED <<now, nodeHealthState, metrics, circuits, cache, disk, inFlight>>

\* selectNode(network, strategy, requiredCapability) called when the registry
\* is reg, the metrics are ms and currentIndex is idx: the nodes it can return
\* (one for each value Math.random() can take), each with the value
\* currentIndex has afterwards.
selectNode(reg, ms, idx, network, strategy, requiredCapability) ==
    LET avail == availableNodes(reg, network, requiredCapability) IN
    IF avail = << >>
    THEN {[node |-> NoNode, currentIndex |-> idx]}
    ELSE CASE strategy = "random" ->
              {[node |-> avail[i].id, currentIndex |-> idx] : i \in Indices(avail)}
           [] strategy = "weighted" ->
              {[node |-> avail[weightedPick(avail, halves)].id, currentIndex |-> idx] :
                   halves \in 0..(2 * totalWeight(avail) - 1)}
           [] strategy = "health-based" ->
              {[node |-> avail[healthBasedPick(avail, ms)].id, currentIndex |-> idx]}
           [] OTHER ->
              {[node |-> avail[((idx + 1) % Len(avail)) + 1].id,
                currentIndex |-> (idx + 1) % Len(avail)]}

\* A call of selectNode from outside the handler.
SelectNode(network, strategy, requiredCapability) ==
    /\ \E result \in selectNode(nodeHealthState, metrics, currentIndex,
                                network, strategy, requiredCapability) :
           /\ ret' = Selected(result.node)
           /\ currentIndex' = result.currentIndex
    /\ UNCHANGED <<now, nodeHealthState, metrics, circuits, cache, disk, inFlight>>

\* recordSuccessfulRequest(nodeId): CircuitBreaker.recordSuccess(nodeId).
recordSuccessfulRequest(cs, nodeId, t) ==
    LET cs1 == ensureCircuitExists(cs, nodeId)
    IN  [cs1 EXCEPT ![nodeId] = recordSuccessCircuit(cs1[nodeId], t)]

\* recordFailedRequest(nodeId): CircuitBreaker.recordFailure(nodeId).
recordFailedRequest(cs, nodeId, t) ==
    LET cs1 == ensureCircuitExists(cs, nodeId)
    IN  [cs1 EXCEPT ![nodeId] = recordFailureCircuit(cs1[nodeId], t)]

\* The last attempt that succeeds instead of the first.
firstSuccess_Last(attempts) ==
    IF \E a \in Indices(attempts) : attempts[a]
    THEN CHOOSE a \in Indices(attempts) :
             attempts[a] /\ \A b \in (a + 1)..Len(attempts) : ~attempts[b]
    ELSE 0

\* The attempt of executeWithRetry that succeeds first (0 when all fail).
firstSuccess(attempts) ==
    IF \E a \in Indices(attempts) : attempts[a]
    THEN CHOOSE a \in Indices(attempts) :
             attempts[a] /\ \A b \in 1..(a - 1) : ~attempts[b]
    ELSE 0

\* executeWithRetry for a request sent to nodeId; attempts[a] tells whether the
\* a-th call of fn() resolves.  The breaker hears of the final outcome alone.
ExecuteWithRetry(nodeId, attempts) ==
    /\ circuits' = IF nodeId = NoNode THEN circuits
                   ELSE IF firstSuccess(attempts) # 0
                        THEN recordSuccessfulRequest(circuits, nodeId, now)
                        ELSE recordFailedRequest(circuits, nodeId, now)
    /\ ret' = [op |-> "proxyRequest", node |-> nodeId,
               value |-> firstSuccess(attempts) # 0]
    /\ UNCHANGED <<now, nodeHealthState, metrics, currentIndex, cache, disk, inFlight>>

(***************************************************************************)
(* Response cache (services/caching.ts).                                   *)
(*                                                                         *)
(* A string is a sequence of tokens, so that startsWith and includes are   *)
(* computed on the text.  A payload (request or response) is a record      *)
(* [batch, entries]: batch tells whether the value is a JSON array         *)
(* (Array.isArray) and entries holds its elements, or the one object when  *)
(* it is not an array.  The cache is the Map in insertion order.  The      *)
(* counters of CacheMetrics are statistics no operation reads back; they   *)
(* are left out.                                                           *)
(***************************************************************************)
eth_blockNumber == <<"eth_", "blockNumber">>

eth_getBalance == <<"eth_", "getBalance">>

eth_getTransactionCount == <<"eth_", "getTransactionCount">>

eth_call == <<"eth_", "call">>

eth_sendTransaction == <<"eth_", "send", "Transaction">>

eth_sendRawTransaction == <<"eth_", "send", "Raw", "Transaction">>

personal_sendTransaction == <<"personal_", "send", "Transaction">>

avax_issueTx == <<"avax_", "issueTx">>

avax_getPendingTxs == <<"avax_", "getPendingTxs">>

avax_getAtomicTxStatus == <<"avax_", "getAtomicTx", "Status">>

\* String.prototype.startsWith
startsWith(s, prefix) ==
    /\ Len(prefix) <= Len(s)
    /\ SubSeq(s, 1, Len(prefix)) = prefix

\* String.prototype.includes
includes(s, pattern) ==
    \E i \in 0..(Len(s) - Len(pattern)) : SubSeq(s, i + 1, i + Len(pattern)) = pattern

\* Array.prototype.join
RECURSIVE join(_, _)
join(strings, separator) ==
    IF Len(strings) = 0 THEN << >>
    ELSE IF Len(strings) = 1 THEN strings[1]
    ELSE strings[1] \o separator \o join(Tail(strings), separator)

\* JSON.stringify of an array of strings
JSONstringify(params) ==
    <<"[">> \o join([i \in DOMAIN params |-> <<params[i]>>], <<",">>) \o <<"]">>

\* The configuration the cache is constructed with.  TTLs are in ticks.
cacheConfig ==
    [enabled |-> TRUE, defaultTTL |-> 3, maxEntries |-> MaxEntries,
     persistentCacheEnabled |-> TRUE]

\* config.methodTTLs
methodTTLs ==
    (eth_blockNumber :> 1) @@ (eth_getBalance :> 2) @@ (eth_call :> 2)
        @@ (eth_getTransactionCount :> 2)

\* The response of cache.get on a miss.
null == [batch |-> FALSE, entries |-> << >>]

\* The methods of a payload: request.map(r => r.method) or [request.method].
methodsOf(request) == [i \in DOMAIN request.entries |-> request.entries[i].method]

generateCacheKey(request) ==
    join([i \in DOMAIN request.entries |->
              request.entries[i].method \o <<":">>
                  \o JSONstringify(request.entries[i].params)],
         <<"|">>)

getTTL(method) ==
    IF method \in DOMAIN methodTTLs THEN methodTTLs[method] ELSE cacheConfig.defaultTTL

nonCacheableMethods ==
    { eth_sendTransaction, eth_sendRawTransaction, <<"personal_", "sign">>,
      <<"eth_", "sign">>, <<"eth_", "sign", "Transaction">>,
      <<"eth_", "submit", "Work">>, <<"eth_", "submit", "Hashrate">>,
      <<"admin_">>, <<"personal_">>, <<"miner_">>, <<"debug_">>,
      avax_issueTx, <<"avax_", "signTx">> }

\* A test for the listed names themselves instead of names starting with them.
isCacheable_Exact(method) == method \notin nonCacheableMethods

isCacheable(method) ==
    ~ \E prefix \in nonCacheableMethods : startsWith(method, prefix)

\* A test that looks at the first response of a batch alone.
hasError_FirstOnly(response) == "error" \in DOMAIN response.entries[1]

hasError(response) ==
    \E i \in DOMAIN response.entries : "error" \in DOMAIN response.entries[i]

\* Map.has, Map.get, Map.delete and Map.set on the cache.
cacheHas(c, key) == \E i \in Indices(c) : c[i].key = key

cacheEntry(c, key) == c[CHOOSE i \in Indices(c) : c[i].key = key]

cacheDelete(c, key) == SelectSeq(c, LAMBDA e : e.key # key)

cacheMapSet(c, key, entry) ==
    LET e == [key |-> key, data |-> entry.data, expiry |-> entry.expiry]
    IN  IF cacheHas(c, key)
        THEN [i \in Indices(c) |-> IF c[i].key = key THEN e ELSE c[i]]
        ELSE Append(c, e)

\* evictOldestEntry: the first entry, in insertion order, of the least expiry.
evictOldestEntry(c) ==
    IF Len(c) = 0 THEN c
    ELSE LET oldest == CHOOSE i \in Indices(c) :
                           /\ \A j \in Indices(c) : c[i].expiry <= c[j].expiry
                           /\ \A j \in 1..(i - 1) : c[j].expiry > c[i].expiry
         IN  cacheDelete(c, c[oldest].key)

\* A get that never looks at the expiry.
cacheGet_KeepsExpired(c, request, t) ==
    LET key == generateCacheKey(request)
    IN  IF \E i \in DOMAIN request.entries : ~isCacheable(request.entries[i].method)
        THEN [cache |-> c, value |-> null]
        ELSE IF ~cacheHas(c, key)
        THEN [cache |-> c, value |-> null]
        ELSE [cache |-> c, value |-> cacheEntry(c, key).data]

\* A get with sliding expiration: a hit gives the entry the default TTL anew.
cacheGet_Refreshes(c, request, t) ==
    LET key == generateCacheKey(request)
    IN  IF \E i \in DOMAIN request.entries : ~isCacheable(request.entries[i].method)
        THEN [cache |-> c, value |-> null]
        ELSE IF ~cacheHas(c, key)
        THEN [cache |-> c, value |-> null]
        ELSE IF cacheEntry(c, key).expiry < t
        THEN [cache |-> cacheDelete(c, key), value |-> null]
        ELSE [cache |-> cacheMapSet(c, key,
                            [data |-> cacheEntry(c, key).data,
                             expiry |-> t + cacheConfig.defaultTTL]),
              value |-> cacheEntry(c, key).data]

\* RpcCache.get: the cache afterwards and the value returned.
cacheGet(c, request, t) ==
    LET key == generateCacheKey(request)
    IN  IF ~cacheConfig.enabled
        THEN [cache |-> c, value |-> null]
        ELSE IF \E i \in DOMAIN request.entries : ~isCacheable(request.entries[i].method)
        THEN [cache |-> c, value |-> null]
        ELSE IF ~cacheHas(c, key)
        THEN [cache |-> c, value |-> null]
        ELSE IF cacheEntry(c, key).expiry < t
        THEN [cache |-> cacheDelete(c, key), value |-> null]
        ELSE [cache |-> c, value |-> cacheEntry(c, key).data]

\* Math.min over the TTLs of the methods.
minTTL(methods) ==
    CHOOSE ttl \in {getTTL(methods[i]) : i \in DOMAIN methods} :
        \A i \in DOMAIN methods : ttl <= getTTL(methods[i])

\* A set that evicts only once the cache is above maxEntries.
cacheSet_EvictsAbove(c, request, response, t) ==
    IF \E i \in DOMAIN request.entries : ~isCacheable(request.entries[i].method)
    THEN c
    ELSE IF hasError(response) THEN c
    ELSE LET c1 == IF Len(c) > cacheConfig.maxEntries THEN evictOldestEntry(c) ELSE c
         IN  cacheMapSet(c1, generateCacheKey(request),
                         [data |-> response, expiry |-> t + minTTL(methodsOf(request))])

\* RpcCache.set
cacheSet(c, request, response, t) ==
    IF ~cacheConfig.enabled THEN c
    ELSE IF \E i \in DOMAIN request.entries : ~isCacheable(request.entries[i].method)
    THEN c
    ELSE IF hasError(response) THEN c
    ELSE LET c1 == IF Len(c) >= cacheConfig.maxEntries THEN evictOldestEntry(c) ELSE c
         IN  cacheMapSet(c1, generateCacheKey(request),
                         [data |-> response, expiry |-> t + minTTL(methodsOf(request))])

\* RpcCache.invalidate with a string pattern.
invalidate(c, pattern) == SelectSeq(c, LAMBDA e : ~includes(e.key, pattern))

\* The invalidationMap of invalidateOnStateChange.
invalidationMap ==
    (eth_sendTransaction :> {eth_getBalance, eth_getTransactionCount, eth_call})
        @@ (eth_sendRawTransaction :> {eth_getBalance, eth_getTransactionCount, eth_call})
        @@ (avax_issueTx :> {avax_getPendingTxs, avax_getAtomicTxStatus})
        @@ (personal_sendTransaction :> {eth_getBalance, eth_getTransactionCount})

invalidateOnStateChange(c, method) ==
    IF method \in DOMAIN invalidationMap
    THEN SelectSeq(c, LAMBDA e :
             ~ \E pattern \in invalidationMap[method] : includes(e.key, pattern))
    ELSE c

cleanupExpiredEntries(c, t) == SelectSeq(c, LAMBDA e : ~(e.expiry < t))

\* saveToDisk: the entries written to the file.
saveToDisk(c, t) == SelectSeq(c, LAMBDA e : e.expiry > t + SaveHorizon)

\* loadFromDisk into the cache c from the file content d.
RECURSIVE loadFromDisk(_, _, _)
loadFromDisk(c, d, t) ==
    IF Len(d) = 0 THEN c
    ELSE loadFromDisk(IF d[1].expiry > t THEN cacheMapSet(c, d[1].key, d[1]) ELSE c,
                      Tail(d), t)

\* The requests and responses the cache is called with.
Request(method, params) == [jsonrpc |-> "2.0", method |-> method, params |-> params, id |-> 1]

Single(entry) == [batch |-> FALSE, entries |-> <<entry>>]

Batch(entries) == [batch |-> TRUE, entries |-> entries]

CacheRequests ==
    { Single(Request(eth_blockNumber, << >>)),
      Single(Request(eth_getBalance, <<"0xA">>)),
      Single(Request(personal_sendTransaction, <<"0xA">>)),
      Batch(<<Request(eth_getBalance, <<"0xA">>)>>),
      Batch(<<Request(eth_blockNumber, << >>), Request(eth_getBalance, <<"0xA">>)>>),
      Batch(<<Request(eth_getBalance, <<"0xA">>), Request(eth_sendTransaction, <<"0xA">>)>>) }

Results == {"v1", "v2"}

ResponsesTo(request) ==
    { [batch |-> request.batch,
       entries |-> [i \in DOMAIN request.entries |->
                        IF i = Len(request.entries) /\ v = "error"
                        THEN [jsonrpc |-> "2.0", id |-> request.entries[i].id,
                              error |-> [code |-> -32601]]
                        ELSE [jsonrpc |-> "2.0", id |-> request.entries[i].id,
                              result |-> IF v = "error" THEN "v1" ELSE v]]] :
      v \in (IF request.batch THEN {"v1"} ELSE Results) \cup {"error"} }

InvalidatePatterns == {eth_getBalance, <<"0xA">>}

StateChangingMethods == {eth_sendTransaction, avax_issueTx}

CacheGet(request) ==
    /\ cache' = cacheGet(cache, request, now).cache
    /\ ret' = [op |-> "get", request |-> request,
               value |-> cacheGet(cache, request, now).value]
    /\ UNCHANGED <<now, nodeHealthState, metrics, circuits, currentIndex, disk, inFlight>>

CacheSet(request, response) ==
    /\ cache' = cacheSet(cache, request, response, now)
    /\ ret' = [op |-> "set", request |-> request, value |-> response]
    /\ UNCHANGED <<now, nodeHealthState, metrics, circuits, currentIndex, disk, inFlight>>

Invalidate(pattern) ==
    /\ cache' = invalidate(cache, pattern)
    /\ ret' = [op |-> "invalidate", request |-> null,
               value |-> Len(cache) - Len(invalidate(cache, pattern))]
    /\ UNCHANGED <<now, nodeHealthState, metrics, circuits, currentIndex, disk, inFlight>>

InvalidateOnStateChange(method) ==
    /\ cache' = invalidateOnStateChange(cache, method)
    /\ ret' = [op |-> "invalidateOnStateChange", request |-> null, value |-> method]
    /\ UNCHANGED <<now, nodeHealthState, metrics, circuits, currentIndex, disk, inFlight>>

\* The sweep the constructor schedules with setInterval.
CleanupExpiredEntries ==
    /\ cache' = cleanupExpiredEntries(cache, now)
    /\ ret' = [op |-> "cleanupExpiredEntries", request |-> null, value |-> null]
    /\ UNCHANGED <<now, nodeHealthState, metrics, circuits, currentIndex, disk, inFlight>>

\* The periodic saveToDisk of a cache with persistentCacheEnabled.
SaveToDisk ==
    /\ cacheConfig.persistentCacheEnabled
    /\ disk' = saveToDisk(cache, now)
    /\ ret' = [op |-> "saveToDisk", request |-> null, value |-> null]
    /\ UNCHANGED <<now, nodeHealthState, metrics, circuits, currentIndex, cache, inFlight>>

\* initializeCache: a new RpcCache, whose constructor runs loadFromDisk.
InitializeCache ==
    /\ cache' = IF cacheConfig.persistentCacheEnabled
                THEN loadFromDisk(<< >>, disk, now)
                ELSE << >>
    /\ ret' = [op |-> "initializeCache", request |-> null, value |-> null]
    /\ UNCHANGED <<now, nodeHealthState, metrics, circuits, currentIndex, disk, inFlight>>

(***************************************************************************)
(* The proxy (services/rpcHandler.ts) with the cache beside it.            *)
(***************************************************************************)
\* A validation that does not ask for an id.
validateJsonRpcRequest_NoIdCheck(request) ==
    /\ request.jsonrpc = "2.0"
    /\ request.method # << >>

\* validateJsonRpcRequest returns without throwing.
validateJsonRpcRequest(request) ==
    /\ request.jsonrpc = "2.0"
    /\ request.method # << >>
    /\ "id" \in DOMAIN request

\* createErrorResponse for the ids of a payload; an id that is undefined is
\* absent from the response.
createErrorResponse(request, code) ==
    [batch |-> request.batch,
     entries |-> [i \in DOMAIN request.entries |->
                      IF "id" \in DOMAIN request.entries[i]
                      THEN [jsonrpc |-> "2.0", id |-> request.entries[i].id,
                            error |-> [code |-> code]]
                      ELSE [jsonrpc |-> "2.0", error |-> [code |-> code]]]]

\* What a call of axios.post ends with: the code of the AxiosError ("" when
\* there is none) and the HTTP status of the answer (0 when there is none).
AxiosResolved == [code |-> "", status |-> 200]

AxiosRefused == [code |-> "ECONNREFUSED", status |-> 0]

AxiosTimeout == [code |-> "ECONNABORTED", status |-> 0]

\* axios.post resolves for an answer with a 2xx status and rejects otherwise.
resolves(outcome) == outcome.code = "" /\ outcome.status \in 200..299

determineErrorCode(error) ==
    IF error.code = "ECONNABORTED" THEN -32603
    ELSE IF error.code = "ECONNREFUSED" THEN -32003
    ELSE IF error.status = 401 THEN -32001
    ELSE IF error.status = 429 THEN -32005
    ELSE -32000

\* The requests sent through the proxy.
ProxyRequests ==
    { Single(Request(eth_getBalance, <<"0xA">>)),
      Single(Request(eth_sendTransaction, <<"0xA">>)) }

\* The outcomes of the calls of axios.post: no call follows one that resolves.
ProxyAttempts ==
    { attempts \in [1..(Retries + 1) -> {AxiosResolved, AxiosRefused}] :
          \A a \in 1..Retries : resolves(attempts[a]) => resolves(attempts[a + 1]) }

\* The nodeId option of proxyRequest (NoNode when it is not given).
ProxyNodeIds == {"n1", NoNode}

\* proxyRequest(targetUrl, request, {nodeId, retries}) with
\* retries = Len(attempts) - 1, called when the breaker map is cs and the
\* clock reads t; attempts[a] is what the a-th axios.post ends with, response
\* is the body of the node's answers.  The result holds the breaker map after
\* the call, the returned value, the number of calls of axios.post and what
\* they ended with.
proxyRequest(cs, t, nodeId, request, attempts, response) ==
    LET valid == \A i \in DOMAIN request.entries :
                     validateJsonRpcRequest(request.entries[i])
        first == firstSuccess([a \in DOMAIN attempts |-> resolves(attempts[a])])
        calls == IF ~valid THEN 0
                 ELSE IF first # 0 THEN first ELSE Len(attempts)
    IN  [circuits |-> IF ~valid \/ nodeId = NoNode THEN cs
                      ELSE IF first # 0
                           THEN recordSuccessfulRequest(cs, nodeId, t)
                           ELSE recordFailedRequest(cs, nodeId, t),
         ok |-> valid /\ first # 0,
         value |-> IF ~valid THEN createErrorResponse(request, -32600)
                   ELSE IF first # 0 THEN response
                   ELSE createErrorResponse(
                            request,
                            determineErrorCode(attempts[Len(attempts)])),
         calls |-> calls,
         answers |-> [a \in 1..calls |->
                          [code |-> attempts[a].code,
                           status |-> attempts[a].status,
                           body |-> IF attempts[a].status # 0
                                    THEN response ELSE null]]]

\* A call of proxyRequest from outside the handler.
ProxyRequest(nodeId, request, attempts, response) ==
    LET result == proxyRequest(circuits, now, nodeId, request, attempts, response)
    IN  /\ circuits' = result.circuits
        /\ ret' = [op |-> "proxyRequest", node |-> nodeId, request |-> request,
                   ok |-> result.ok,
                   value |-> result.value,
                   calls |-> result.calls,
                   retries |-> Len(attempts) - 1,
                   answers |-> result.answers]
        /\ UNCHANGED <<now, nodeHealthState, metrics, currentIndex, cache, disk, inFlight>>

\* A request object with the given fields.
RequestWith(jsonrpc, method, id) ==
    [jsonrpc |-> jsonrpc, method |-> method, params |-> <<"0xA">>, id |-> id]

\* A request object that has no id.
RequestWithoutId(method) ==
    [jsonrpc |-> "2.0", method |-> method, params |-> <<"0xA">>]

\* The payloads forwarded to the proxy, well-formed and not.
ForwardRequests ==
    { Single(RequestWith("2.0", eth_getBalance, 1)),
      Single(RequestWith("2.0", eth_getBalance, 0)),
      Single(RequestWith("1.0", eth_getBalance, 1)),
      Single(RequestWith("2.0", << >>, 1)),
      Single(RequestWithoutId(eth_getBalance)),
      Batch(<<RequestWith("2.0", eth_getBalance, 1), RequestWith("2.0", eth_call, 2)>>),
      Batch(<<RequestWith("2.0", eth_getBalance, 1), RequestWith("1.0", eth_call, 2)>>) }

\* The bodies the node may answer a payload with.
ForwardResponses(request) ==
    IF \A i \in DOMAIN request.entries : "id" \in DOMAIN request.entries[i]
    THEN {response \in ResponsesTo(request) :
              \A i \in DOMAIN response.entries :
                  "result" \in DOMAIN response.entries[i]
                  => response.entries[i].result = "v1"}
    ELSE {null}

\* What the calls of axios.post end with, for retries in 0..Retries: a call
\* that is not the last resolves or times out.
ForwardAttempts ==
    UNION { { attempts \in [1..(retries + 1) ->
                               { AxiosResolved, AxiosTimeout, AxiosRefused,
                                 [code |-> "", status |-> 401],
                                 [code |-> "", status |-> 429],
                                 [code |-> "", status |-> 500] }] :
                  \A a \in 1..retries :
                      attempts[a] \in {AxiosResolved, AxiosTimeout} } :
            retries \in 0..Retries }

-----------------------------------------------------------------------------
(***************************************************************************)
(* Front handler (lambda/router: handleRpcRequest).                        *)
(***************************************************************************)

DEFAULT_NETWORK == "avalanche-mainnet"

\* The `retries` option the handler passes to proxyRequest.
HandlerRetries == 1

\* The id of a response whose id is JSON null.
nullId == -1

\* A method as the string the handler passes on.
RECURSIVE methodName(_)
methodName(method) ==
    IF method = << >> THEN "" ELSE Head(method) \o methodName(Tail(method))

\* networks[networkId].supportedMethods, the same list for both networks.
supportedMethods ==
    { eth_blockNumber, eth_call, eth_getBalance, eth_getTransactionCount,
      eth_sendRawTransaction, eth_sendTransaction }

isMethodSupported(networkId, method) ==
    /\ networkId \in Networks
    /\ method \in supportedMethods

\* The strategies getLoadBalancingStrategyFromEvent accepts.
validStrategies == {"round-robin", "random", "weighted", "health-based", "sticky"}

\* event.body when the request has none, and when it is not JSON.
NoBody == [text |-> ""]
BadJson == [text |-> "{"]

\* `id || null`
idOrNull(id) == IF id = 0 THEN nullId ELSE id

\* `requestPayload.id || null`
payloadIdOrNull(payload) ==
    IF ~payload.batch /\ "id" \in DOMAIN payload.entries[1]
    THEN idOrNull(payload.entries[1].id)
    ELSE nullId

\* The handler's createErrorResponse(statusCode, id, message, code).
httpErrorResponse(statusCode, id, code) ==
    [statusCode |-> statusCode,
     body |-> [batch |-> FALSE,
               entries |-> <<[jsonrpc |-> "2.0", id |-> idOrNull(id),
                              error |-> [code |-> code]]>>]]

\* An HTTP event: its method, its body, and the strategy query parameter and
\* x-session-id header ("" when absent).
Event(httpMethod, body, strategy, sessionId) ==
    [httpMethod |-> httpMethod, body |-> body,
     strategy |-> strategy, sessionId |-> sessionId]

\* What handleRpcRequest returned for the event, with the node it selected and
\* what the calls of axios.post ended with.
Handled(event, nodeId, result, answers) ==
    [op |-> "handleRpcRequest", event |-> event, node |-> nodeId,
     statusCode |-> result.statusCode, value |-> result.body,
     answers |-> answers]

\* handleRpcRequest(event); attempts and response are what the selected node
\* does with the forwarded payload.  The session id the handler computes for
\* strategy sticky is passed as a fourth argument of selectNode, which has
\* three parameters, and goes into the Set-Cookie header only.
HandleRpcRequest(event, attempts, response) ==
    LET network == DEFAULT_NETWORK
        strategy == IF event.strategy \in validStrategies
                    THEN event.strategy ELSE "health-based"
        requestPayload == event.body
        hasMethod == /\ ~requestPayload.batch
                     /\ "method" \in DOMAIN requestPayload.entries[1]
                     /\ requestPayload.entries[1].method # << >>
        method == IF hasMethod
                  THEN methodName(requestPayload.entries[1].method)
                  ELSE NoCapability
    IN  /\ IF event.httpMethod # "POST"
           THEN /\ ret' = Handled(event, NoNode, httpErrorResponse(405, nullId, 405), << >>)
                /\ UNCHANGED <<circuits, currentIndex>>
           ELSE IF event.body \in {NoBody, BadJson}
           THEN /\ ret' = Handled(event, NoNode,
                                  httpErrorResponse(400, nullId, -32700), << >>)
                /\ UNCHANGED <<circuits, currentIndex>>
           ELSE IF hasMethod /\ ~isMethodSupported(network, requestPayload.entries[1].method)
           THEN /\ ret' = Handled(event, NoNode,
                                  httpErrorResponse(
                                      400, payloadIdOrNull(requestPayload), -32601),
                                  << >>)
                /\ UNCHANGED <<circuits, currentIndex>>
           ELSE \E targetNode \in selectNode(nodeHealthState, metrics, currentIndex,
                                             network, strategy, method) :
                    /\ currentIndex' = targetNode.currentIndex
                    /\ IF targetNode.node = NoNode
                       THEN /\ ret' = Handled(event, NoNode,
                                              httpErrorResponse(
                                                  503, payloadIdOrNull(requestPayload),
                                                  -32001),
                                              << >>)
                            /\ UNCHANGED circuits
                       ELSE LET rpcResponse ==
                                    proxyRequest(circuits, now, targetNode.node,
                                                 requestPayload, attempts, response)
                            IN  /\ circuits' = rpcResponse.circuits
                                /\ ret' = Handled(event, targetNode.node,
                                                  [statusCode |-> 200,
                                                   body |-> rpcResponse.value],
                                                  rpcResponse.answers)
        /\ UNCHANGED <<now, nodeHealthState, metrics, cache, disk, inFlight>>

\* The payloads sent to the handler.
HandlerPayloads ==
    { Single(RequestWith("2.0", eth_call, 1)),
      Single(RequestWith("2.0", eth_call, 0)),
      Single(RequestWith("2.0", eth_blockNumber, 1)),
      Single(RequestWith("2.0", personal_sendTransaction, 0)),
      Batch(<<RequestWith("2.0", eth_call, 1), RequestWith("2.0", eth_call, 2)>>) }

\* The events the handler is invoked with.
HandlerEvents ==
    {Event("GET", NoBody, "", ""), Event("POST", NoBody, "", ""),
     Event("POST", BadJson, "", "")}
    \cup {Event("POST", payload, "", "") : payload \in HandlerPayloads}
    \cup {Event("POST", Single(RequestWith("2.0", eth_call, 1)), "sticky", "s1")}

\* What the two calls of axios.post end with.
HandlerAttempts ==
    {attempts \in [1..(HandlerRetries + 1) ->
                       {AxiosResolved, AxiosTimeout, AxiosRefused}] :
         \A a \in 1..HandlerRetries :
             resolves(attempts[a]) => resolves(attempts[a + 1])}

\* The bodies the node may answer the event's payload with.
HandlerResponses(event) ==
    IF event.body \in {NoBody, BadJson} THEN {null} ELSE ForwardResponses(event.body)

----------------------------------------------------------------------------
\* The state after the modules are loaded and the singletons constructed:
\* the registry holds the configured nodes, initializeMetrics has run.
Init ==
    /\ now = 1
    /\ nodeHealthState = nodes
    /\ metrics = [id \in {nodes[i].id : i \in Indices(nodes)} |->
                     InitialMetrics(nodes[nodeIndex(nodes, id)], 1)]
    /\ circuits = << >>
    /\ currentIndex = 0
    /\ cache = << >>
    /\ disk = << >>
    /\ inFlight = {}
    /\ ret = NoRet

\* The circuit breaker driven directly by its callers.
NextCB ==
    \/ Tick
    \/ MonitorTick
    \/ \E n \in CBIds : IsAllowed(n)
    \/ \E n \in CBIds : RecordedOutcomes < MaxRequests /\ RecordSuccess(n)
    \/ \E n \in CBIds : RecordedOutcomes < MaxRequests /\ RecordFailure(n)
    \/ \E n \in CBIds : ResetCircuit(n)

SpecCB == Init /\ [][NextCB]_vars

\* The circuit breaker with its monitor timer: failures arrive while the
\* clock can still run resetTimeout further, successes and isAllowed calls
\* arrive or do not.
NextMonitor ==
    \/ Tick
    \/ MonitorTick
    \/ \E n \in CBIds :
           /\ RecordedOutcomes < MaxRequests
           /\ now + ResetTimeout <= MaxTime
           /\ RecordFailure(n)
    \/ \E n \in CBIds : RecordedOutcomes < MaxRequests /\ RecordSuccess(n)
    \/ \E n \in CBIds : IsAllowed(n)

\* Time passes and the setInterval callback of startMonitoring keeps firing.
SpecMonitor ==
    /\ Init
    /\ [][NextMonitor]_vars
    /\ WF_vars(Tick)
    /\ WF_vars(MonitorTick)

\* The health checker: the outcomes of the probes its two timers send, and the
\* manual overrides.  No decision of the health checker reads the clock, which
\* stands still here.
NextHC ==
    \/ \E n \in CBIds, rt \in ResponseTimes :
           RecordedProbes < MaxProbes /\ ProbeSuccess(n, rt)
    \/ \E n \in CBIds : RecordedProbes < MaxProbes /\ ProbeFailure(n)
    \/ \E n \in CBIds, h \in BOOLEAN : ForceUpdateHealth(n, h)

SpecHC == Init /\ [][NextHC]_vars

\* The outcomes and probes recorded so far.
RecordedEvents == RecordedOutcomes + RecordedProbes

\* The gateway: selections, proxied requests, probes, timers and overrides.
Next ==
    \/ Tick
    \/ MonitorTick
    \/ \E net \in Networks, st \in Strategies, cap \in Capabilities :
           SelectNode(net, st, cap)
    \/ \E n \in CBIds, att \in [1..(Retries + 1) -> BOOLEAN] :
           RecordedEvents < MaxEvents /\ ExecuteWithRetry(n, att)
    \/ \E n \in ProbedIds, rt \in ResponseTimes :
           RecordedEvents < MaxEvents /\ ProbeSuccess(n, rt)
    \/ \E n \in ProbedIds : RecordedEvents < MaxEvents /\ ProbeFailure(n)
    \/ \E n \in ProbedIds, h \in BOOLEAN : ForceUpdateHealth(n, h)

Spec == Init /\ [][Next]_vars

\* The nodes probed where nodes are added to the registry.
RegIds == ProbedIds \cup AddedIds

\* The health checker over a registry that grows: addNode, the start and the
\* outcome of probes, health reports and manual overrides.  The clock stands
\* still, as in SpecHC.
NextReg ==
    \/ \E node \in AddableNodes : AddNode(node)
    \/ \E n \in RegIds : ProbeStart(n)
    \/ GetHealthReport
    \/ \E n \in RegIds, rt \in ResponseTimes :
           RecordedProbes < MaxProbes /\ ProbeSuccess(n, rt)
    \/ \E n \in RegIds : RecordedProbes < MaxProbes /\ ProbeFailure(n)
    \/ \E n \in RegIds, h \in BOOLEAN : ForceUpdateHealth(n, h)

SpecReg == Init /\ [][NextReg]_vars

\* The health checker started on a registry whose nodes are added, removed
\* and reset while probes are in flight.  The fetches of the probes of n2 and
\* of the node added at run time answer or fail; the others answer.
NextProbes ==
    \/ CheckAllNodes
    \/ AttemptRecovery
    \/ \E probe \in inFlight, ok \in BOOLEAN :
           /\ RecordedProbes < MaxProbes
           /\ probe.node \in RegIds \/ ok
           /\ CheckNodeHealthCompletes(probe, ok, 1)
    \/ \E node \in AddableNodes : AddNode(node)
    \/ \E n \in RegIds : RemoveNode(n)
    \/ ResetNodeConfig

SpecProbes == Init /\ [][NextProbes]_vars

\* The selector over a registry whose nodes are added and overridden.
NextSelect ==
    \/ \E net \in Networks, st \in Strategies, cap \in Capabilities :
           SelectNode(net, st, cap)
    \/ \E node \in AddableNodes : AddNode(node)
    \/ \E n \in RegIds, isHealthy \in BOOLEAN : ForceUpdateHealth(n, isHealthy)

SpecSelect == Init /\ [][NextSelect]_vars

\* The proxy alone, given well-formed and malformed payloads.
NextForward ==
    /\ RecordedEvents < MaxEvents
    /\ \E nodeId \in ProxyNodeIds : \E request \in ForwardRequests :
       \E attempts \in ForwardAttempts :
       \E response \in ForwardResponses(request) :
           ProxyRequest(nodeId, request, attempts, response)

SpecForward == Init /\ [][NextForward]_vars

\* The handler, and the overrides that change which nodes it can select.
NextHandler ==
    /\ RecordedEvents < MaxEvents
    /\ \/ \E event \in HandlerEvents : \E attempts \in HandlerAttempts :
          \E response \in HandlerResponses(event) :
              HandleRpcRequest(event, attempts, response)
       \/ \E nodeId \in {"n1", "n2"} : \E isHealthy \in BOOLEAN :
              ForceUpdateHealth(nodeId, isHealthy)

SpecHandler == Init /\ [][NextHandler]_vars

\* The selector while requests fail at the nodes and nodes are overridden.
NextFallback ==
    \/ \E net \in Networks, st \in Strategies, cap \in Capabilities :
           SelectNode(net, st, cap)
    \/ \E n \in CBIds, att \in [1..(Retries + 1) -> BOOLEAN] :
           RecordedEvents < MaxEvents /\ ExecuteWithRetry(n, att)
    \/ \E n \in CBIds, isHealthy \in BOOLEAN : ForceUpdateHealth(n, isHealthy)

SpecFallback == Init /\ [][NextFallback]_vars

\* A node added at run time that is preferred (priority 1) over n2.
PreferredNode ==
    [id |-> "n4", network |-> "avalanche-mainnet", healthy |-> TRUE, weight |-> 1,
     priority |-> 1, capabilities |-> {"eth_call", "archive"}, lastCheck |-> Null]

\* Selection by health score over a registry that grows and is overridden.
NextHealthBased ==
    \/ \E net \in Networks, cap \in Capabilities :
           SelectNode(net, "health-based", cap)
    \/ AddNode(PreferredNode)
    \/ \E n \in CBIds \cup AddedIds, isHealthy \in BOOLEAN :
           ForceUpdateHealth(n, isHealthy)

SpecHealthBased == Init /\ [][NextHealthBased]_vars

\* The proxy, the cache its callers share with it, and the clock.
NextProxy ==
    \/ Tick
    \/ \E request \in ProxyRequests : CacheGet(request)
    \/ \E request \in ProxyRequests : \E response \in ResponsesTo(request) :
           CacheSet(request, response)
    \/ /\ RecordedEvents < MaxEvents
       /\ \E nodeId \in ProxyNodeIds : \E request \in ProxyRequests :
          \E attempts \in ProxyAttempts :
          \E response \in ResponsesTo(request) :
              ProxyRequest(nodeId, request, attempts, response)

SpecProxy == Init /\ [][NextProxy]_vars

\* The cache alone: its operations, the sweep, the snapshot and the clock.
NextCache ==
    \/ Tick
    \/ \E request \in CacheRequests : CacheGet(request)
    \/ \E request \in CacheRequests : \E response \in ResponsesTo(request) :
           CacheSet(request, response)
    \/ \E pattern \in InvalidatePatterns : Invalidate(pattern)
    \/ \E method \in StateChangingMethods : InvalidateOnStateChange(method)
    \/ CleanupExpiredEntries
    \/ SaveToDisk
    \/ InitializeCache

SpecCache == Init /\ [][NextCache]_vars

\* The state of the registry and the health checker after construction.
HealthStateInitial ==
    /\ nodeHealthState = nodes
    /\ metrics = [id \in {nodes[i].id : i \in Indices(nodes)} |->
                     InitialMetrics(nodes[nodeIndex(nodes, id)], 1)]

\* The circuit breaker and the health checker, each run on its own: no
\* operation of either reads or writes the state of the other, so every
\* reachable pair of their states is a pair of states reached here.
NextParts ==
    \/ HealthStateInitial /\ NextCB
    \/ circuits = << >> /\ now = 1 /\ NextHC

SpecParts == Init /\ [][NextParts]_vars

\* The successful probes still to be recorded for the node suffice for a
\* recovery.
CanRecover(nodeId) == metrics[nodeId].successCount + HCSuccessThreshold <= MaxProbes

\* A successful probe of the node can still be recorded.
CanProbe(nodeId) == metrics[nodeId].successCount < MaxProbes

\* A probe of the node that answers ok.
RecoveryProbe(nodeId) ==
    \E rt \in ResponseTimes : CanProbe(nodeId) /\ ProbeSuccess(nodeId, rt)

\* Weak fairness of RecoveryProbe(nodeId), with its enabling condition written
\* out: the registry never loses a node, so the probe can be recorded exactly
\* when CanProbe holds, and recording it always changes successCount.
ProbesKeepCompleting(nodeId) ==
    \/ []<>(~CanProbe(nodeId))
    \/ []<><<RecoveryProbe(nodeId)>>_vars

\* The health checker probing a node that fails finitely often: failed probes
\* and manual disabling stop while successful probes remain to be recorded.
NextRecover ==
    \/ \E n \in ProbedIds : RecoveryProbe(n)
    \/ \E n \in ProbedIds :
           /\ metrics[n].failureCount < MaxProbes
           /\ CanRecover(n)
           /\ ProbeFailure(n)
    \/ \E n \in ProbedIds :
           /\ getNodeById(nodeHealthState, n).healthy
           /\ CanRecover(n)
           /\ ForceUpdateHealth(n, FALSE)
    \/ \E n \in ProbedIds : ForceUpdateHealth(n, TRUE)

\* The interval timers of start() keep firing: a probe that can complete does.
SpecRecover ==
    /\ Init
    /\ [][NextRecover]_vars
    /\ \A n \in ProbedIds : ProbesKeepCompleting(n)

----------------------------------------------------------------------------
(***************************************************************************)
(* Selection and the circuit breaker, under Spec.                          *)
(***************************************************************************)

\* The node may be selected for the request: it is healthy, its circuit allows
\* a request now, it is on the network, and it lists the capability if one is
\* required.
Admissible(node, network, requiredCapability) ==
    /\ node.healthy
    /\ isAllowedResult(getCircuitStats(circuits, node.id), now)
    /\ node.network = network
    /\ requiredCapability # NoCapability => requiredCapability \in node.capabilities

\* The emergency fallback applies: no capability is required, the network has
\* healthy nodes, and the circuit of each of them refuses.
InEmergencyFallback(network, requiredCapability) ==
    LET healthy == getHealthyNodesByNetwork(nodeHealthState, network)
    IN  /\ requiredCapability = NoCapability
        /\ healthy # << >>
        /\ \A i \in Indices(healthy) :
               ~isAllowedResult(getCircuitStats(circuits, healthy[i].id), now)

\* C1: outside the emergency fallback, a node selectNode returns is healthy,
\* allowed by its circuit, on the requested network and has the required
\* capability, and selectNode returns null when no node is all of these.
C1_SelectsAdmissibleNode ==
    [][\A net \in Networks, st \in Strategies, cap \in Capabilities :
          (SelectNode(net, st, cap) /\ ~InEmergencyFallback(net, cap)) =>
              IF ret'.node # NoNode
              THEN Admissible(getNodeById(nodeHealthState, ret'.node), net, cap)
              ELSE \A i \in Indices(nodeHealthState) :
                       ~Admissible(nodeHealthState[i], net, cap)]_vars

\* The request whose every attempt fails.
AllAttemptsFail == [a \in 1..(Retries + 1) |-> FALSE]

\* C2: the failureThreshold-th exhausted-retry failure in a row that the proxy
\* records for a node opens the node's circuit, and while the circuit is OPEN
\* and resetTimeout has not elapsed since it opened, no selectNode call returns
\* the node.
C2_OpenCircuitShieldsNode ==
    [][\A n \in CBIds :
          LET c == getCircuitStats(circuits, n)
              c2 == getCircuitStats(circuits', n)
          IN  /\ ( /\ ExecuteWithRetry(n, AllAttemptsFail)
                   /\ c.state = "CLOSED"
                   /\ c.failures + 1 = CBFailureThreshold ) => c2.state = "OPEN"
              /\ ( /\ c.state = "OPEN"
                   /\ now - c.openedAt < ResetTimeout
                   /\ \E net \in Networks, st \in Strategies, cap \in Capabilities :
                          SelectNode(net, st, cap) ) => ret'.node # n]_vars

----------------------------------------------------------------------------
(***************************************************************************)
(* Circuit breaker: the properties of its state machine, under SpecCB.     *)
(***************************************************************************)

\* C3: a CLOSED circuit opens at the recordFailure that makes its consecutive
\* failures equal failureThreshold and at no earlier one; openedAt is then the
\* time of that failure; a recordSuccess on a CLOSED circuit sets the
\* consecutive failures back to 0, so the count starts again.
C3_OpensAtThreshold ==
    [][\A n \in CBIds :
          LET c == getCircuitStats(circuits, n)
              c2 == getCircuitStats(circuits', n)
          IN  /\ (RecordFailure(n) /\ c.state = "CLOSED") =>
                    IF c.failures + 1 = CBFailureThreshold
                    THEN /\ c2.state = "OPEN"
                         /\ c2.openedAt = now
                         /\ c2.openedAt = c2.lastFailure
                    ELSE /\ c2.state = "CLOSED"
                         /\ c2.openedAt = Null
                         /\ c2.failures = c.failures + 1
                         /\ c2.failures < CBFailureThreshold
              /\ (RecordSuccess(n) /\ c.state = "CLOSED") =>
                    /\ c2.state = "CLOSED"
                    /\ c2.failures = 0]_vars

\* A circuit that opened on failureThreshold failures in a row, recorded after
\* a success had restarted the count.
C3_Witness ==
    \E n \in DOMAIN circuits :
        /\ circuits[n].state = "OPEN"
        /\ circuits[n].failures = CBFailureThreshold
        /\ circuits[n].totalFailures > CBFailureThreshold
        /\ circuits[n].totalSuccesses >= 1
        /\ circuits[n].openedAt = circuits[n].lastFailure

\* C4: a HALF_OPEN circuit closes at the recordSuccess that makes its
\* consecutive successes equal successThreshold, stays HALF_OPEN at every
\* earlier one, and any recordFailure re-opens it with openedAt set to the time
\* of that failure.
C4_HalfOpenOutcomes ==
    [][\A n \in CBIds :
          LET c == getCircuitStats(circuits, n)
              c2 == getCircuitStats(circuits', n)
          IN  /\ (RecordSuccess(n) /\ c.state = "HALF_OPEN") =>
                    IF c.successes + 1 = CBSuccessThreshold
                    THEN c2.state = "CLOSED"
                    ELSE /\ c2.state = "HALF_OPEN"
                         /\ c2.successes = c.successes + 1
                         /\ c2.successes < CBSuccessThreshold
              /\ (RecordFailure(n) /\ c.state = "HALF_OPEN") =>
                    /\ c2.state = "OPEN"
                    /\ c2.openedAt = now]_vars

\* A HALF_OPEN circuit one success short of closing.
C4_Witness ==
    \E n \in DOMAIN circuits :
        /\ circuits[n].state = "HALF_OPEN"
        /\ circuits[n].successes = CBSuccessThreshold - 1
        /\ circuits[n].successes >= 1

\* C5: a circuit becomes HALF_OPEN only from OPEN, only once
\* now - openedAt >= resetTimeout, only in a monitor tick or an isAllowed call,
\* and with its consecutive successes at 0; both of these take the transition
\* once the timeout has elapsed (isAllowed then returns true); before that,
\* isAllowed returns false and every step but a manual resetCircuit leaves the
\* circuit OPEN.
C5_HalfOpenAfterTimeout ==
    [][\A n \in CBIds :
          LET c == getCircuitStats(circuits, n)
              c2 == getCircuitStats(circuits', n)
              elapsed == now - c.openedAt >= ResetTimeout
          IN  /\ (c.state # "HALF_OPEN" /\ c2.state = "HALF_OPEN") =>
                    /\ c.state = "OPEN"
                    /\ elapsed
                    /\ c2.successes = 0
                    /\ MonitorTick \/ IsAllowed(n)
              /\ (c.state = "OPEN" /\ elapsed /\ (MonitorTick \/ IsAllowed(n))) =>
                    c2.state = "HALF_OPEN"
              /\ (c.state = "OPEN" /\ elapsed /\ IsAllowed(n)) => ret'.value
              /\ (c.state = "OPEN" /\ ~elapsed /\ IsAllowed(n)) => ~ret'.value
              /\ (c.state = "OPEN" /\ ~elapsed /\ ~ResetCircuit(n)) =>
                    c2.state = "OPEN"]_vars

\* isAllowed has just let a request through on a circuit it moved from OPEN to
\* HALF_OPEN, the timeout having elapsed.
C5_Witness ==
    /\ ret.op = "isAllowed"
    /\ ret.value
    /\ ret.node \in DOMAIN circuits
    /\ circuits[ret.node].state = "HALF_OPEN"
    /\ circuits[ret.node].successes = 0
    /\ now - circuits[ret.node].openedAt >= ResetTimeout

\* The last step of the round trip of a fresh circuit: failureThreshold
\* failures opened it, the timeout made it HALF_OPEN, and the recordSuccess of
\* this step is the successThreshold-th in a row since then.
RoundTripEnds(n) ==
    LET c == getCircuitStats(circuits, n)
    IN  /\ RecordSuccess(n)
        /\ c.state = "HALF_OPEN"
        /\ c.totalFailures = CBFailureThreshold
        /\ c.successes = CBSuccessThreshold - 1
        /\ c.totalSuccesses = c.successes

\* C6, as claimed: the round trip ends CLOSED with failures = 0,
\* successes = 0 and openedAt = null.
C6_RoundTripClearsAll ==
    [][\A n \in CBIds :
          RoundTripEnds(n) =>
              LET c2 == getCircuitStats(circuits', n)
              IN  /\ c2.state = "CLOSED"
                  /\ c2.failures = 0
                  /\ c2.successes = 0
                  /\ c2.openedAt = Null]_vars

\* C6, amended: the round trip ends CLOSED with failures = 0 and
\* openedAt = null, and with the consecutive successes at successThreshold:
\* closeCircuit does not reset them.
C6_RoundTripCloses ==
    [][\A n \in CBIds :
          RoundTripEnds(n) =>
              LET c2 == getCircuitStats(circuits', n)
              IN  /\ c2.state = "CLOSED"
                  /\ c2.failures = 0
                  /\ c2.successes = CBSuccessThreshold
                  /\ c2.openedAt = Null]_vars

\* A circuit at the end of the round trip.
C6_Witness ==
    \E n \in DOMAIN circuits :
        /\ circuits[n].state = "CLOSED"
        /\ circuits[n].totalFailures = CBFailureThreshold
        /\ circuits[n].totalSuccesses = CBSuccessThreshold
        /\ circuits[n].successes = CBSuccessThreshold
        /\ circuits[n].lastSuccess >= circuits[n].lastFailure + ResetTimeout

\* C7, as claimed: in every reachable state a circuit is OPEN if and only if
\* its openedAt is non-null.
C7_OpenIffOpenedAt ==
    \A n \in DOMAIN circuits :
        circuits[n].state = "OPEN" <=> circuits[n].openedAt # Null

\* C7, amended: an OPEN circuit has a non-null openedAt and a CLOSED circuit
\* has openedAt = null; a HALF_OPEN circuit keeps the openedAt of the OPEN
\* period it came from.
C7_OpenedAtByState ==
    \A n \in DOMAIN circuits :
        /\ circuits[n].state = "OPEN" => circuits[n].openedAt # Null
        /\ circuits[n].state = "CLOSED" => circuits[n].openedAt = Null
        /\ circuits[n].state = "HALF_OPEN" =>
              /\ circuits[n].openedAt # Null
              /\ circuits[n].openedAt <= circuits[n].lastFailure

\* A HALF_OPEN circuit, which still holds the time it opened.
C7_Witness ==
    \E n \in DOMAIN circuits :
        /\ circuits[n].state = "HALF_OPEN"
        /\ circuits[n].openedAt # Null
        /\ now - circuits[n].openedAt >= ResetTimeout

----------------------------------------------------------------------------
(***************************************************************************)
(* Consecutive counters (SpecParts) and health transitions (SpecHC,        *)
(* SpecRecover).                                                           *)
(***************************************************************************)

\* C8: in every reachable state, each circuit has failures = 0 or
\* successes = 0, and each node's health metrics have consecutiveFailures = 0
\* or consecutiveSuccesses = 0.
C8_OneCounterAtATime ==
    /\ \A n \in DOMAIN circuits :
           circuits[n].failures = 0 \/ circuits[n].successes = 0
    /\ \A n \in DOMAIN metrics :
           metrics[n].consecutiveFailures = 0 \/ metrics[n].consecutiveSuccesses = 0

\* A circuit the timeout made HALF_OPEN after it had recorded successes and
\* failures: the failures still count, the successes are back at 0.
C8_Witness ==
    \E n \in DOMAIN circuits :
        /\ circuits[n].state = "HALF_OPEN"
        /\ circuits[n].failures > 0
        /\ circuits[n].successes = 0
        /\ circuits[n].totalSuccesses > 0

\* The step records a failed probe of the node.
ProbeFailed(nodeId) ==
    metrics'[nodeId].failureCount = metrics[nodeId].failureCount + 1

\* The step records a successful probe of the node.
ProbeSucceeded(nodeId) ==
    metrics'[nodeId].successCount = metrics[nodeId].successCount + 1

\* C9: a failed probe of a healthy node marks it unhealthy exactly when it is
\* the failureThreshold-th failure in a row (a healthy node has fewer than
\* failureThreshold consecutive failures); a successful probe sets the
\* consecutive failures to 0 and leaves a healthy node healthy.
C9_UnhealthyAtThreshold ==
    [][\A n \in CBIds :
          LET node == getNodeById(nodeHealthState, n)
              node2 == getNodeById(nodeHealthState', n)
          IN  /\ (ProbeFailed(n) /\ node.healthy) =>
                    /\ metrics[n].consecutiveFailures < HCFailureThreshold
                    /\ metrics'[n].consecutiveFailures =
                           metrics[n].consecutiveFailures + 1
                    /\ ~node2.healthy <=>
                           metrics'[n].consecutiveFailures = HCFailureThreshold
              /\ ProbeSucceeded(n) =>
                    /\ metrics'[n].consecutiveFailures = 0
                    /\ node.healthy => node2.healthy]_vars

\* A node that failed out on failureThreshold failed probes in a row, recorded
\* after a successful probe had restarted the count.
C9_Witness ==
    \E n \in CBIds :
        /\ ~getNodeById(nodeHealthState, n).healthy
        /\ metrics[n].consecutiveFailures = HCFailureThreshold
        /\ metrics[n].failureCount = HCFailureThreshold
        /\ metrics[n].successCount = 1
        /\ metrics[n].score <= 10

\* selectNode can return the node: it is among the healthy nodes of its network.
Eligible(nodeId) ==
    LET avail == availableNodes(nodeHealthState,
                                getNodeById(nodeHealthState, nodeId).network,
                                NoCapability)
    IN  \E i \in Indices(avail) : avail[i].id = nodeId

\* C10: a successful probe of an unhealthy node marks it healthy exactly when
\* it is the successThreshold-th success in a row (an unhealthy node has fewer
\* than successThreshold consecutive successes); and an unhealthy node whose
\* probes keep being answered is eventually healthy and eligible for selection.
C10_RecoversAtThreshold ==
    /\ [][\A n \in ProbedIds :
             LET node == getNodeById(nodeHealthState, n)
                 node2 == getNodeById(nodeHealthState', n)
             IN  (ProbeSucceeded(n) /\ ~node.healthy) =>
                    /\ metrics[n].consecutiveSuccesses < HCSuccessThreshold
                    /\ metrics'[n].consecutiveSuccesses =
                           metrics[n].consecutiveSuccesses + 1
                    /\ node2.healthy <=>
                           metrics'[n].consecutiveSuccesses = HCSuccessThreshold]_vars
    /\ \A n \in ProbedIds :
           (~getNodeById(nodeHealthState, n).healthy)
               ~> (getNodeById(nodeHealthState, n).healthy /\ Eligible(n))

\* A node back among the healthy nodes after failed probes had marked it
\* unhealthy and successThreshold successful probes in a row followed.
C10_Witness ==
    \E n \in ProbedIds :
        /\ Eligible(n)
        /\ metrics[n].consecutiveSuccesses = HCSuccessThreshold
        /\ metrics[n].successCount = HCSuccessThreshold
        /\ metrics[n].failureCount = HCFailureThreshold

----------------------------------------------------------------------------
(***************************************************************************)
(* Health score, under SpecReg.                                            *)
(***************************************************************************)

\* C11: in every reachable state the score of every node that has metrics is
\* an integer from 0 to 100, and so is the score getNodeScore reports for any
\* node.
C11_ScoreInRange ==
    /\ \A n \in DOMAIN metrics : metrics[n].score \in 0..100
    /\ \A i \in Indices(nodeHealthState) :
           getNodeScore(metrics, nodeHealthState[i].id) \in 0..100

\* An added node with lazily created metrics whose score was computed from
\* probes with failures and an unequal response time, next to a node that
\* forceUpdateHealth disabled.
C11_Witness ==
    /\ \E n \in AddedIds :
           /\ n \in DOMAIN metrics
           /\ metrics[n].failureCount > 0
           /\ metrics[n].score \in 11..99
           /\ metrics[n].score # 50
    /\ \E n \in ProbedIds :
           /\ ~getNodeById(nodeHealthState, n).healthy
           /\ metrics[n].failureCount = 0

\* C12: in every reachable state a node whose registry flag healthy is false
\* has a score of at most 10.
C12_UnhealthyScoreCapped ==
    \A i \in Indices(nodeHealthState) :
        ~nodeHealthState[i].healthy =>
            getNodeScore(metrics, nodeHealthState[i].id) <= 10

(***************************************************************************)
(* Response cache, under SpecCache.                                        *)
(***************************************************************************)
\* The request of the last cache call is cacheable.
Cacheable(request) ==
    \A i \in DOMAIN request.entries : isCacheable(request.entries[i].method)

\* A cache.set step of a cacheable request with an error-free response stores
\* the response under the key of the request, expiring at now + TTL.
C13_SetStores ==
    (ret'.op = "set" /\ Cacheable(ret'.request) /\ ~hasError(ret'.value))
    => LET key == generateCacheKey(ret'.request)
       IN  /\ cacheHas(cache', key)
           /\ cacheEntry(cache', key).data = ret'.value
           /\ cacheEntry(cache', key).expiry = now + minTTL(methodsOf(ret'.request))
           /\ cacheGet(cache', ret'.request, now).value = ret'.value

\* A cache.get step on a stored entry returns its payload strictly before the
\* expiry and null after it.
C13_GetReturns ==
    (ret'.op = "get" /\ Cacheable(ret'.request)
        /\ cacheHas(cache, generateCacheKey(ret'.request)))
    => LET entry == cacheEntry(cache, generateCacheKey(ret'.request))
       IN  /\ (now < entry.expiry => ret'.value = entry.data)
           /\ (now > entry.expiry => ret'.value = null)

\* C13: cache round trip.  cache.set of a cacheable request r with an
\* error-free response p stores p under the key of r with expiry now + TTL;
\* cache.get of r returns the stored payload while now is strictly before the
\* expiry of the entry and returns the miss value (null) once now is past it.
C13_RoundTrip == [][C13_SetStores /\ C13_GetReturns]_vars

\* A read at a later tick than the write, still before the expiry, was a hit.
C13_Witness ==
    /\ ret.op = "get"
    /\ ret.value # null
    /\ cacheHas(cache, generateCacheKey(ret.request))
    /\ LET entry == cacheEntry(cache, generateCacheKey(ret.request))
       IN  /\ now < entry.expiry
           /\ now > entry.expiry - minTTL(methodsOf(ret.request))

\* A cache.get step on an entry whose expiry is at or before now is a miss and
\* removes the entry.
C14_GetDropsExpired ==
    (ret'.op = "get" /\ Cacheable(ret'.request)
        /\ cacheHas(cache, generateCacheKey(ret'.request))
        /\ cacheEntry(cache, generateCacheKey(ret'.request)).expiry <= now)
    => /\ ret'.value = null
       /\ ~cacheHas(cache', generateCacheKey(ret'.request))

\* A sweep leaves no entry whose expiry is at or before now.
C14_SweepDropsExpired ==
    ret'.op = "cleanupExpiredEntries"
    => \A i \in Indices(cache') : cache'[i].expiry > now

\* C14: cache.get never returns an entry whose expiry is less than or equal to
\* the current time (a read at exactly the expiry instant is a miss), and such
\* an entry is removed by the read or by the periodic sweep.
C14_ExpiredNeverReturned == [][C14_GetDropsExpired /\ C14_SweepDropsExpired]_vars

\* Some entry of the request has a method starting with a non-cacheable prefix.
HasNonCacheablePrefix(request) ==
    \E i \in DOMAIN request.entries : \E prefix \in nonCacheableMethods :
        startsWith(request.entries[i].method, prefix)

\* C15: for every request whose method starts with a non-cacheable prefix, and
\* for every batch containing at least one such entry, cache.set stores
\* nothing and cache.get returns a miss: no entry is ever held under the key
\* of such a request, a set of it leaves the cache as it was, and a get of it
\* returns null.
C15_NonCacheableNeverStored ==
    /\ [](\A request \in CacheRequests :
             HasNonCacheablePrefix(request)
             => ~cacheHas(cache, generateCacheKey(request)))
    /\ [][(ret'.op = "set" /\ HasNonCacheablePrefix(ret'.request))
             => cache' = cache]_vars
    /\ [][(ret'.op = "get" /\ HasNonCacheablePrefix(ret'.request))
             => (ret'.value = null /\ cache' = cache)]_vars

\* cache.set was called for a batch holding a state-changing entry, with an
\* error-free response, while the cache held entries of its other entries.
C15_Witness ==
    /\ ret.op = "set"
    /\ ret.request.batch
    /\ HasNonCacheablePrefix(ret.request)
    /\ ~hasError(ret.value)
    /\ Len(cache) > 0

\* Some response of the payload carries an error field.
CarriesError(response) ==
    \E i \in DOMAIN response.entries : "error" \in DOMAIN response.entries[i]

\* C16: in every reachable cache state no stored entry's payload contains an
\* error field, and cache.set with a response, or a batch response with any
\* entry, carrying error leaves the cache unchanged.
C16_NoErrorStored ==
    /\ [](\A i \in Indices(cache) : ~CarriesError(cache[i].data))
    /\ [][(ret'.op = "set" /\ CarriesError(ret'.value)) => cache' = cache]_vars

\* cache.set was called for a cacheable batch whose response carries an error
\* in one entry, while the cache held an entry.
C16_Witness ==
    /\ ret.op = "set"
    /\ ret.request.batch
    /\ Cacheable(ret.request)
    /\ CarriesError(ret.value)
    /\ ~CarriesError([batch |-> FALSE, entries |-> <<ret.value.entries[1]>>])
    /\ Len(cache) > 0

C18_HitServedFromCache ==
    (ret'.op = "proxyRequest" /\ cacheGet(cache, ret'.request, now).value # null)
    => /\ ret'.value = cacheGet(cache, ret'.request, now).value
       /\ ret'.calls = 0

\* A proxyRequest step on a miss that ends with an error-free upstream
\* response for a cacheable request stores that response.
C18_MissStored ==
    (ret'.op = "proxyRequest" /\ cacheGet(cache, ret'.request, now).value = null
        /\ ret'.ok /\ Cacheable(ret'.request) /\ ~CarriesError(ret'.value))
    => cacheGet(cache', ret'.request, now).value = ret'.value

\* C18: proxyRequest consults the cache before forwarding: when an unexpired
\* response for the request is cached it returns that response and makes zero
\* upstream calls; on a miss, a successful upstream response for a cacheable
\* request is stored, so the next identical request within the TTL is served
\* from the cache.
C18_ProxyUsesCache == [][C18_HitServedFromCache /\ C18_MissStored]_vars

\* C19: invalidation on write.  When an eth_sendTransaction or
\* eth_sendRawTransaction succeeds through the proxy, no eth_getBalance entry
\* is left in the cache, so the next cache.get of a cached eth_getBalance
\* request is a miss.
C19_WriteInvalidates ==
    [][(ret'.op = "proxyRequest" /\ ret'.ok /\ ~CarriesError(ret'.value)
          /\ ~ret'.request.batch
          /\ ret'.request.entries[1].method
                \in {eth_sendTransaction, eth_sendRawTransaction})
       => \A request \in ProxyRequests :
              (\E i \in DOMAIN request.entries :
                   request.entries[i].method = eth_getBalance)
              => cacheGet(cache', request, now).value = null]_vars

(***************************************************************************)
(* Round-robin selection, under SpecSelect.                                *)
(***************************************************************************)
\* The position of node id in the candidates (0 when it is not one of them).
PositionIn(avail, id) ==
    IF \E i \in Indices(avail) : avail[i].id = id
    THEN CHOOSE i \in Indices(avail) : avail[i].id = id
    ELSE 0

\* After a selection that returned the candidate at currentIndex, a round-robin
\* selection over the same candidates returns the next candidate in order,
\* the first one after the last.
RoundRobinSucceeds(net, cap) ==
    LET avail == availableNodes(nodeHealthState, net, cap)
        k == Len(avail)
    IN  (/\ k > 0
         /\ currentIndex < k
         /\ ret.op = "selectNode"
         /\ ret.node = avail[currentIndex + 1].id
         /\ SelectNode(net, "round-robin", cap))
        => /\ ret'.node = avail[(PositionIn(avail, ret.node) % k) + 1].id
           /\ ret'.node \in {avail[i].id : i \in Indices(avail)}

\* C20: round-robin selection over a fixed candidate set of size k returns
\* each candidate exactly once in every window of k consecutive selections:
\* each selection returns the cyclic successor, in the candidates' order, of
\* the candidate the selection before it returned, which is always a healthy
\* node of the network.
C20_RoundRobinCycles ==
    [][\A net \in Networks, cap \in Capabilities : RoundRobinSucceeds(net, cap)]_vars

\* Round-robin has reached the third of three candidates of the main network.
C20_Witness ==
    LET avail == availableNodes(nodeHealthState, "avalanche-mainnet", NoCapability)
    IN  /\ Len(avail) = 3
        /\ currentIndex = 2
        /\ ret.op = "selectNode"
        /\ ret.node = avail[3].id

(***************************************************************************)
(* The proxy, under SpecForward.                                           *)
(***************************************************************************)
\* Every entry of the payload is a JSON-RPC 2.0 request with a non-empty
\* method and an id.
WellFormed(request) ==
    \A i \in DOMAIN request.entries :
        /\ request.entries[i].jsonrpc = "2.0"
        /\ request.entries[i].method # << >>
        /\ "id" \in DOMAIN request.entries[i]

\* The call of axios.post ended with an answer of status 2xx.
Answered2xx(answer) == answer.code = "" /\ answer.status \in 200..299

\* A proxyRequest step for a well-formed request sent to a node.
C21_Step ==
    (ret'.op = "proxyRequest" /\ ret'.node # NoNode /\ WellFormed(ret'.request))
    => LET before == getCircuitStats(circuits, ret'.node)
           after == getCircuitStats(circuits', ret'.node)
           last == ret'.answers[ret'.calls]
       IN  /\ ret'.calls \in 1..(ret'.retries + 1)
           /\ Len(ret'.answers) = ret'.calls
           /\ \A a \in 1..(ret'.calls - 1) : ~Answered2xx(ret'.answers[a])
           /\ ret'.value # null
           /\ IF Answered2xx(last)
              THEN /\ ret'.value = last.body
                   /\ after.totalSuccesses = before.totalSuccesses + 1
                   /\ after.totalFailures = before.totalFailures
              ELSE /\ ret'.calls = ret'.retries + 1
                   /\ CarriesError(ret'.value)
                   /\ after.totalFailures = before.totalFailures + 1
                   /\ after.totalSuccesses = before.totalSuccesses

\* C21: for a valid request with a nodeId and retries = R, proxyRequest makes
\* at most R+1 upstream attempts, stops at the first successful one, always
\* returns a response, and records exactly one breaker outcome: one success
\* and no failure if some attempt succeeded, one failure and no success if
\* all R+1 attempts failed; failed attempts before the last record nothing.
C21_OneOutcomePerRequest == [][C21_Step]_vars

\* A request succeeded on its second attempt of three, at a node that has an
\* exhausted request recorded.
C21_Witness ==
    /\ ret.op = "proxyRequest"
    /\ ret.node = "n1"
    /\ ret.ok
    /\ ret.calls = 2
    /\ ret.retries = 2
    /\ getCircuitStats(circuits, "n1").totalFailures > 0
    /\ getCircuitStats(circuits, "n1").totalSuccesses = 1

\* A proxyRequest step for a single request that is not well-formed.
C22_Step ==
    (ret'.op = "proxyRequest" /\ ~ret'.request.batch /\ ~WellFormed(ret'.request))
    => /\ ret'.calls = 0
       /\ circuits' = circuits
       /\ ~ret'.value.batch
       /\ Len(ret'.value.entries) = 1
       /\ "error" \in DOMAIN ret'.value.entries[1]
       /\ ret'.value.entries[1].error.code = -32600
       /\ "id" \in DOMAIN ret'.request.entries[1]
          => /\ "id" \in DOMAIN ret'.value.entries[1]
             /\ ret'.value.entries[1].id = ret'.request.entries[1].id

\* C22: a request whose jsonrpc is not "2.0", whose method is missing or not a
\* non-empty string, or which has no id is answered by proxyRequest with error
\* code -32600 carrying the request's id, without any upstream call and
\* without any recordSuccessfulRequest / recordFailedRequest call.
C22_InvalidRejectedLocally == [][C22_Step]_vars

\* A request without an id was rejected at a node whose breaker has recorded
\* outcomes of earlier requests.
C22_Witness ==
    /\ ret.op = "proxyRequest"
    /\ ret.node = "n1"
    /\ ~ret.request.batch
    /\ "id" \notin DOMAIN ret.request.entries[1]
    /\ ret.calls = 0
    /\ "n1" \in DOMAIN circuits
    /\ circuits["n1"].totalFailures + circuits["n1"].totalSuccesses > 0

\* The indices of a request's entries that are not well-formed.
InvalidEntries(request) ==
    {i \in DOMAIN request.entries : ~WellFormed(Single(request.entries[i]))}

\* A proxyRequest step for a batch with exactly one entry that is not
\* well-formed: the batch is forwarded and only that entry is answered -32600.
C23_Step ==
    (/\ ret'.op = "proxyRequest"
     /\ ret'.request.batch
     /\ Cardinality(InvalidEntries(ret'.request)) = 1)
    => /\ ret'.calls >= 1
       /\ ret'.value.batch
       /\ Len(ret'.value.entries) = Len(ret'.request.entries)
       /\ \A i \in DOMAIN ret'.request.entries :
            (/\ "error" \in DOMAIN ret'.value.entries[i]
             /\ ret'.value.entries[i].error.code = -32600)
            <=> i \in InvalidEntries(ret'.request)

\* C23: for a batch in which exactly one entry is invalid, the valid entries
\* are still forwarded and answered by the upstream, and the response array
\* has the -32600 error at the invalid entry's index only.
C23_BatchRejectsPerEntry == [][C23_Step]_vars

\* A proxyRequest step whose last upstream answer has a body with a JSON-RPC
\* error object: the body is returned and no failure is recorded.
C24_Step ==
    (/\ ret'.op = "proxyRequest"
     /\ WellFormed(ret'.request)
     /\ ret'.calls >= 1
     /\ ret'.answers[ret'.calls].body # null
     /\ CarriesError(ret'.answers[ret'.calls].body))
    => /\ ret'.value = ret'.answers[ret'.calls].body
       /\ cache' = cache
       /\ ret'.node # NoNode
          => getCircuitStats(circuits', ret'.node).totalFailures
                 = getCircuitStats(circuits, ret'.node).totalFailures

\* C24: when the upstream node answers with a JSON-RPC error object, whatever
\* the HTTP status of that answer, proxyRequest returns that error with its
\* code unchanged, and the outcome is neither cached nor recorded as a node
\* failure in the breaker.
C24_UpstreamErrorPassedThrough == [][C24_Step]_vars

\* The handler answered an event whose body is a JSON-RPC payload.
HandledPayload ==
    /\ ret.op = "handleRpcRequest"
    /\ ret.event.httpMethod = "POST"
    /\ "entries" \in DOMAIN ret.event.body

\* C25: every response the gateway produces for a request (proxied result,
\* synthesised validation or transport error, handler-level error) carries
\* the id of that request, per entry for batches, including ids such as 0;
\* the id is null only when it cannot be recovered from the request.
C25_ResponseCarriesId ==
    HandledPayload
    => /\ Len(ret.value.entries) = Len(ret.event.body.entries)
       /\ \A i \in DOMAIN ret.event.body.entries :
            "id" \in DOMAIN ret.event.body.entries[i]
            => /\ i \in DOMAIN ret.value.entries
               /\ "id" \in DOMAIN ret.value.entries[i]
               /\ ret.value.entries[i].id = ret.event.body.entries[i].id

\* No healthy node of the default network can serve the handled payload.
NoBackendSelectable ==
    LET payload == ret.event.body
        capability == IF ~payload.batch /\ "method" \in DOMAIN payload.entries[1]
                      THEN methodName(payload.entries[1].method)
                      ELSE NoCapability
    IN  availableNodes(nodeHealthState, DEFAULT_NETWORK, capability) = << >>

\* The HTTP status the handled event is to be answered with.
C30_Status ==
    IF ret.event.httpMethod # "POST" THEN 405
    ELSE IF "entries" \notin DOMAIN ret.event.body THEN 400
    ELSE IF NoBackendSelectable THEN 503
    ELSE IF ret.answers # << >> /\ ~Answered2xx(ret.answers[Len(ret.answers)])
         THEN IF ret.answers[Len(ret.answers)].code = "ECONNABORTED"
              THEN 504 ELSE 502
    ELSE 200

\* C30: the front handler answers with HTTP 405 for a non-POST request, 400
\* for a missing or unparseable body, 503 when no backend is selectable, 504
\* when the proxy attempt times out, 502 when the proxy otherwise fails, and
\* 200 in every other case, including when the body is a JSON-RPC error.
C30_HttpStatus ==
    ret.op = "handleRpcRequest" => ret.statusCode = C30_Status

\* The node the last handled request went to can still serve the next one.
StillCandidate(nodeId, payload) ==
    LET capability == IF ~payload.batch /\ "method" \in DOMAIN payload.entries[1]
                      THEN methodName(payload.entries[1].method)
                      ELSE NoCapability
        avail == availableNodes(nodeHealthState', DEFAULT_NETWORK, capability)
    IN  \E i \in Indices(avail) : avail[i].id = nodeId

\* Two requests in a row with strategy sticky and the same session id.
C26_Step ==
    (/\ ret.op = "handleRpcRequest"
     /\ ret.event.strategy = "sticky"
     /\ ret.node # NoNode
     /\ ret'.op = "handleRpcRequest"
     /\ ret'.event.strategy = "sticky"
     /\ ret'.event.sessionId = ret.event.sessionId
     /\ "entries" \in DOMAIN ret'.event.body
     /\ StillCandidate(ret.node, ret'.event.body))
    => ret'.node = ret.node

\* C26: with strategy sticky and a fixed session id, consecutive selections
\* return the same node for as long as that node stays a candidate.
C26_StickyPinsNode == [][C26_Step]_vars

\* The healthy nodes of the network, when there are some and the circuit of
\* each of them refuses a request now.
AllHealthyRefused(network) ==
    LET healthy == getHealthyNodesByNetwork(nodeHealthState, network)
    IN  /\ healthy # << >>
        /\ \A i \in Indices(healthy) :
               ~isAllowedResult(getCircuitStats(circuits, healthy[i].id), now)

\* The node is a healthy node of the network with the fewest lifetime failures.
FewestLifetimeFailures(nodeId, network) ==
    LET healthy == getHealthyNodesByNetwork(nodeHealthState, network)
    IN  \E i \in Indices(healthy) :
            /\ healthy[i].id = nodeId
            /\ \A j \in Indices(healthy) :
                   getCircuitStats(circuits, nodeId).totalFailures
                       <= getCircuitStats(circuits, healthy[j].id).totalFailures

\* A selectNode step taken while every healthy node of the network is refused.
C27_Step ==
    \A net \in Networks, st \in Strategies, cap \in Capabilities :
        (SelectNode(net, st, cap) /\ AllHealthyRefused(net))
        => IF cap = NoCapability
           THEN FewestLifetimeFailures(ret'.node, net)
           ELSE ret'.node = NoNode

\* C27: emergency fallback: when no capability is required, healthy nodes
\* exist on the network and every one of them is refused by its circuit
\* breaker, selectNode returns the healthy node with the fewest lifetime
\* failures instead of null; when a capability is required it returns null.
C27_EmergencyFallback == [][C27_Step]_vars

\* The ids in increasing order.
IdOrder == <<"n1", "n2", "n3", "n4">>

\* The place of the id in that order.
idRank(id) == CHOOSE i \in DOMAIN IdOrder : IdOrder[i] = id

\* Candidate a is to be preferred to candidate b: higher score, then lower
\* priority value, then earlier id.
Preferred(a, b) ==
    LET sa == getNodeScore(metrics, a.id)
        sb == getNodeScore(metrics, b.id)
    IN  \/ sa > sb
        \/ sa = sb /\ a.priority < b.priority
        \/ sa = sb /\ a.priority = b.priority
              /\ idRank(a.id) <= idRank(b.id)

\* A health-based selectNode step over a non-empty set of candidates.
C28_Step ==
    \A net \in Networks, cap \in Capabilities :
        LET avail == availableNodes(nodeHealthState, net, cap) IN
        (SelectNode(net, "health-based", cap) /\ avail # << >>)
        => \E i \in Indices(avail) :
               /\ avail[i].id = ret'.node
               /\ \A j \in Indices(avail) : Preferred(avail[i], avail[j])

\* C28: with strategy health-based, selectNode returns a candidate with the
\* maximum health score; among candidates with equal maximum score it returns
\* the one with the lowest priority value, and among those the one first in
\* id order.
C28_HealthBasedOrder == [][C28_Step]_vars

\* The node is as forceUpdateHealth(nodeId, true) leaves it.
ForcedHealthy(nodeId) ==
    /\ hasNode(nodeHealthState, nodeId)
    /\ nodeId \in DOMAIN metrics
    /\ getNodeById(nodeHealthState, nodeId).healthy
    /\ metrics[nodeId].consecutiveFailures = 0
    /\ metrics[nodeId].consecutiveSuccesses = HCSuccessThreshold
    /\ metrics[nodeId].lastStatusChange = getNodeById(nodeHealthState, nodeId).lastCheck

\* forceUpdateHealth(nodeId, true) once more changes none of the fields.
C29_SecondCallChangesNothing ==
    \A nodeId \in ProbedIds :
        (ForceUpdateHealth(nodeId, TRUE) /\ ForcedHealthy(nodeId))
        => /\ getNodeById(nodeHealthState', nodeId).healthy
           /\ metrics'[nodeId].consecutiveFailures = metrics[nodeId].consecutiveFailures
           /\ metrics'[nodeId].consecutiveSuccesses = metrics[nodeId].consecutiveSuccesses
           /\ metrics'[nodeId].score = metrics[nodeId].score
           /\ metrics'[nodeId].lastStatusChange = metrics[nodeId].lastStatusChange

\* forceUpdateHealth for an id the registry does not hold.
C29_UnknownIdChangesNothing ==
    \A nodeId \in ProbedIds \cup AddedIds :
        (ForceUpdateHealth(nodeId, TRUE) /\ ~hasNode(nodeHealthState, nodeId))
        => /\ ret'.value = FALSE
           /\ nodeHealthState' = nodeHealthState
           /\ metrics' = metrics

\* C29: forceUpdateHealth(id, true) is idempotent: calling it twice in a row
\* leaves the node's healthy flag, consecutive counters, score and
\* lastStatusChange as one call leaves them; for an unknown id it returns
\* false and changes nothing.
C29_ForceIdempotent ==
    [][C29_SecondCallChangesNothing /\ C29_UnknownIdChangesNothing]_vars

----------------------------------------------------------------------------
(***************************************************************************)
(* Circuit breaker: resets, late outcomes and the monitor timer.           *)
(***************************************************************************)

\* What resetCircuit(n) stores for n, and what it leaves of the other circuits.
C33_ResetStep ==
    \A n \in CBIds :
        LET c == getCircuitStats(circuits, n)
            c2 == getCircuitStats(circuits', n)
        IN  ResetCircuit(n) =>
                /\ c2.state = "CLOSED"
                /\ c2.failures = 0
                /\ c2.successes = 0
                /\ c2.openedAt = Null
                /\ c2.totalFailures = c.totalFailures
                /\ c2.totalSuccesses = c.totalSuccesses
                /\ c2.lastFailure = c.lastFailure
                /\ c2.lastSuccess = c.lastSuccess
                /\ DOMAIN circuits' = DOMAIN circuits \cup {n}
                /\ \A m \in DOMAIN circuits \ {n} : circuits'[m] = circuits[m]

\* A CLOSED circuit opens only at a failure that is the failureThreshold-th in
\* a row since the consecutive failures were last 0.
C33_OpensAfterThreshold ==
    \A n \in CBIds :
        LET c == getCircuitStats(circuits, n)
            c2 == getCircuitStats(circuits', n)
        IN  (c.state = "CLOSED" /\ c2.state = "OPEN") =>
                /\ c.failures = CBFailureThreshold - 1
                /\ c2.failures = CBFailureThreshold

\* C33: resetCircuit(id) from any state yields state CLOSED with consecutive
\* failures = 0, consecutive successes = 0 and openedAt = null, leaves
\* totalFailures, totalSuccesses, lastFailure and lastSuccess of that node
\* unchanged, and leaves every other node's circuit unchanged; afterwards the
\* circuit needs failureThreshold new consecutive failures to open again.
C33_ResetClearsTransient == [][C33_ResetStep /\ C33_OpensAfterThreshold]_vars

\* A circuit that opened on failureThreshold failures and was then reset,
\* beside another node's circuit that has failures recorded.
C33_Witness ==
    \E n \in DOMAIN circuits :
        /\ circuits[n].state = "CLOSED"
        /\ circuits[n].failures = 0
        /\ circuits[n].successes = 0
        /\ circuits[n].openedAt = Null
        /\ circuits[n].totalFailures = CBFailureThreshold
        /\ circuits[n].totalSuccesses = 0
        /\ circuits[n].lastFailure # Null
        /\ \E m \in DOMAIN circuits \ {n} : circuits[m].totalFailures > 0

\* A HALF_OPEN circuit is short of successThreshold consecutive successes.
C37_HalfOpenBelowThreshold ==
    \A n \in DOMAIN circuits :
        circuits[n].state = "HALF_OPEN" => circuits[n].successes < CBSuccessThreshold

\* isAllowed on a HALF_OPEN circuit returns true and leaves it HALF_OPEN.
C37_HalfOpenAllows ==
    \A n \in CBIds :
        (IsAllowed(n) /\ getCircuitStats(circuits, n).state = "HALF_OPEN")
        => /\ ret'.value
           /\ getCircuitStats(circuits', n) = getCircuitStats(circuits, n)

C38_LateOutcomes ==
    \A n \in CBIds :
        LET c == getCircuitStats(circuits, n)
            c2 == getCircuitStats(circuits', n)
        IN  (c.state = "OPEN" /\ (RecordSuccess(n) \/ RecordFailure(n)))
            => /\ c2.state = "OPEN"
               /\ c2.openedAt = c.openedAt

\* An OPEN circuit is CLOSED one step later only through resetCircuit.
C38_NoShortcut ==
    \A n \in CBIds :
        LET c == getCircuitStats(circuits, n)
            c2 == getCircuitStats(circuits', n)
        IN  (c.state = "OPEN" /\ c2.state = "CLOSED") => ResetCircuit(n)

\* C38: while a circuit is OPEN, recordSuccess and recordFailure change
\* neither its state nor its openedAt; an OPEN circuit reaches CLOSED only
\* through HALF_OPEN or through resetCircuit.
C38_OpenIgnoresOutcomes == [][C38_LateOutcomes /\ C38_NoShortcut]_vars

\* An OPEN circuit that has recorded a success and a failure after it opened,
\* at a later time than it opened.
C38_Witness ==
    \E n \in DOMAIN circuits :
        /\ circuits[n].state = "OPEN"
        /\ circuits[n].lastFailure > circuits[n].openedAt
        /\ circuits[n].totalSuccesses >= 1
        /\ circuits[n].lastSuccess >= circuits[n].openedAt
        /\ circuits[n].failures = 1

\* C32: under fair firing of the monitor timer, every circuit that is OPEN
\* eventually becomes HALF_OPEN even if no isAllowed, recordSuccess or
\* recordFailure call ever arrives for that node.
C32_OpenEventuallyHalfOpen ==
    \A n \in CBIds :
        (n \in DOMAIN circuits /\ circuits[n].state = "OPEN")
            ~> (n \in DOMAIN circuits /\ circuits[n].state = "HALF_OPEN")

\* A circuit the monitor callback has just moved to HALF_OPEN, no call having
\* arrived for the node since it opened.
C32_Witness ==
    /\ ret = NoRet
    /\ \E n \in DOMAIN circuits :
           /\ circuits[n].state = "HALF_OPEN"
           /\ now - circuits[n].openedAt >= ResetTimeout
           /\ circuits[n].lastFailure = circuits[n].openedAt
           /\ circuits[n].totalSuccesses = 0
           /\ circuits[n].totalFailures = CBFailureThreshold

(***************************************************************************)
(* Round-robin selection for two networks in turn, under SpecSelect.       *)
(***************************************************************************)
\* A round-robin selection for network net returns one of its candidates.
C34_InRange(net) ==
    LET avail == availableNodes(nodeHealthState, net, NoCapability)
    IN  (avail # << >> /\ SelectNode(net, "round-robin", NoCapability))
        => ret'.node \in {avail[i].id : i \in Indices(avail)}

\* After a round-robin selection for network net, a round-robin selection for
\* the network other and then one for net again, the registry unchanged,
\* return a candidate of other and the cyclic successor, among the candidates
\* of net, of the node the first selection returned.
C34_NextInTurn(net, other) ==
    LET avail == availableNodes(nodeHealthState, net, NoCapability)
        k == Len(avail)
    IN  (/\ k > 0
         /\ other # net
         /\ SelectNode(net, "round-robin", NoCapability)
         /\ ret'.node \in {avail[i].id : i \in Indices(avail)})
        => \A second \in selectNode(nodeHealthState, metrics, currentIndex',
                                     other, "round-robin", NoCapability) :
               \A third \in selectNode(nodeHealthState, metrics, second.currentIndex,
                                       net, "round-robin", NoCapability) :
                   third.node = avail[(PositionIn(avail, ret'.node) % k) + 1].id

\* C34: round-robin stays in range and fair per network under interleaving:
\* when selections for two networks are interleaved each selection returns a
\* candidate of its network, and the selections for one network with a fixed
\* set of k candidates still visit each candidate once per k selections, each
\* returning the cyclic successor of the node that network's selection before
\* it returned.
C34_RoundRobinPerNetwork ==
    [][\A net \in Networks, other \in Networks :
           C34_InRange(net) /\ C34_NextInTurn(net, other)]_vars

(***************************************************************************)
(* Eviction on insertion, under SpecCache.                                 *)
(***************************************************************************)
\* The keys a step removes from the cache.
C35_Evicted == {cache[i].key : i \in Indices(cache)} \ {cache'[i].key : i \in Indices(cache')}

\* What a set that stores its response may evict.
C35_SetStep(request, response) ==
    LET key == generateCacheKey(request)
    IN  (/\ CacheSet(request, response)
         /\ \A i \in DOMAIN request.entries : isCacheable(request.entries[i].method)
         /\ ~hasError(response))
        => /\ C35_Evicted # {}
                  => /\ ~cacheHas(cache, key)
                     /\ Len(cache) + 1 > cacheConfig.maxEntries
           /\ Cardinality(C35_Evicted) <= 1
           /\ \A k \in C35_Evicted :
                  \A i \in Indices(cache) : cacheEntry(cache, k).expiry <= cache[i].expiry

\* C35: cache.set evicts only when the insertion would take the cache above
\* maxEntries, which overwriting an existing key does not; it evicts at most
\* one entry per insertion, and the evicted entry is one with the earliest
\* expiry.
C35_EvictsOnlyOnOverflow ==
    [][\A request \in CacheRequests : \A response \in ResponsesTo(request) :
           C35_SetStep(request, response)]_vars

(***************************************************************************)
(* The shape of a cache hit, under SpecCache.                              *)
(***************************************************************************)
\* A hit for request returns a payload of the request's own shape: an array
\* with one response for each entry of a batch, one response object for a
\* single request.
C36_HitStep(request) ==
    (CacheGet(request) /\ ret'.value # null)
        => /\ ret'.value.batch = request.batch
           /\ Len(ret'.value.entries) = Len(request.entries)

\* C36: a cache hit for a batch request returns an array payload that was
\* stored for a batch with the same ordered entries, and a hit for a single
\* request returns a single response object: what was stored for the single
\* request r is never returned for the one-element batch [r], nor the
\* reverse.
C36_HitKeepsShape == [][\A request \in CacheRequests : C36_HitStep(request)]_vars

(***************************************************************************)
(* Reads and the expiry of an entry, under SpecCache.                      *)
(***************************************************************************)
\* The step is a call of get that hits.
C39_Hit == ret'.op = "get" /\ ret'.value # null

\* The step is a call of set that stores its response under key.
C39_Stores(key) ==
    /\ ret'.op = "set"
    /\ generateCacheKey(ret'.request) = key
    /\ \A i \in DOMAIN ret'.request.entries : isCacheable(ret'.request.entries[i].method)
    /\ ~hasError(ret'.value)

\* A hit leaves the cache as it is.
C39_HitStep == C39_Hit => cache' = cache

\* A set that stores gives the entry the expiry now + TTL.
C39_SetStep ==
    (ret'.op = "set" /\ C39_Stores(generateCacheKey(ret'.request)))
        => /\ cacheHas(cache', generateCacheKey(ret'.request))
           /\ cacheEntry(cache', generateCacheKey(ret'.request)).expiry
                  = now + minTTL(methodsOf(ret'.request))

\* An entry that is new in the cache, or whose expiry differs from the one it
\* had, was stored by this step or is read back from the file as saved there.
C39_ExpiryFixed ==
    \A i \in Indices(cache') :
        (\/ ~cacheHas(cache, cache'[i].key)
         \/ cacheEntry(cache, cache'[i].key).expiry # cache'[i].expiry)
        => \/ C39_Stores(cache'[i].key)
           \/ /\ ret'.op = "initializeCache"
              /\ \E j \in Indices(disk) :
                     disk[j].key = cache'[i].key /\ disk[j].expiry = cache'[i].expiry

\* The file holds entries of the cache, with the expiry they have there.
C39_SavedAsStored ==
    \A j \in Indices(disk') :
        \/ \E i \in Indices(disk) : disk[i] = disk'[j]
        \/ \E i \in Indices(cache) : cache[i] = disk'[j]

\* A read after the expiry of the entry is a miss.
C39_MissAfterExpiry ==
    (/\ ret'.op = "get"
     /\ cacheHas(cache, generateCacheKey(ret'.request))
     /\ now > cacheEntry(cache, generateCacheKey(ret'.request)).expiry)
        => ret'.value = null

\* C39: a cache hit does not modify the entry, and reads never extend its
\* expiry: an entry stored at time t with TTL d has expiry t + d until it is
\* stored again, whatever hits it serves, and every read after t + d is a
\* miss.
C39_ReadsNeverExtend ==
    [][/\ C39_HitStep
       /\ C39_SetStep
       /\ C39_ExpiryFixed
       /\ C39_SavedAsStored
       /\ C39_MissAfterExpiry]_vars

\* A hit, at the last instant of its TTL, on an entry stored earlier.
C39_Witness ==
    /\ ret.op = "get"
    /\ ret.value # null
    /\ cacheHas(cache, generateCacheKey(ret.request))
    /\ cacheEntry(cache, generateCacheKey(ret.request)).expiry = now
    /\ cacheEntry(cache, generateCacheKey(ret.request)).data = ret.value

(***************************************************************************)
(* Probes in flight, under SpecProbes.                                     *)
(***************************************************************************)
\* The probes of node nodeId that are in flight.
ProbesOf(nodeId) == {probe \in inFlight : probe.node = nodeId}

\* C31: at any time at most one health probe is in flight per node: no two
\* ticks of the check timer, no check tick and recovery tick, and not start()'s
\* immediate check and a timer tick run checkNodeHealth for one node at the
\* same time.
C31_OneProbePerNode == \A probe \in inFlight : Cardinality(ProbesOf(probe.node)) <= 1

\* The success and failure counters, the response times and the score of
\* every node are what they were.
C40_CountersKept ==
    /\ DOMAIN metrics' = DOMAIN metrics
    /\ \A n \in DOMAIN metrics :
           /\ metrics'[n].successCount = metrics[n].successCount
           /\ metrics'[n].failureCount = metrics[n].failureCount
           /\ metrics'[n].consecutiveSuccesses = metrics[n].consecutiveSuccesses
           /\ metrics'[n].consecutiveFailures = metrics[n].consecutiveFailures
           /\ metrics'[n].responseTime = metrics[n].responseTime
           /\ metrics'[n].score = metrics[n].score

\* The step is the completion of a probe whose node the registry does not
\* hold.
C40_CompletesAfterRemoval ==
    /\ ret'.op = "checkNodeHealth"
    /\ inFlight' # inFlight
    /\ ~hasNode(nodeHealthState, ret'.node)

====
